---- MODULE Spec2Model ----
(***************************************************************************)
(* A model of the Amazon analytics pipeline: file discovery and            *)
(* classification (data_loader.py), table loading and cleaning             *)
(* (data_loader.py), the four domain analyzers with their alerts and the   *)
(* KPI summary (analyzer.py), and the console/GUI run that sequences them  *)
(* (ui_handler.py).                                                        *)
(*                                                                         *)
(* Strings are TLA+ strings; a character is a string of length 1.  Table   *)
(* cells are tagged records (Num, Str, NaN) so that numbers, text and      *)
(* missing values can live in one column.                                  *)
(***************************************************************************)
EXTENDS Integers, Sequences, FiniteSets, TLC

VARIABLES
    pc,            \* position of the run / which operation was applied last
    csv_files,     \* the directory listing, in glob order
    opened,        \* the paths handed to pd.read_csv, in order
    loader,        \* one load_<domain>_data call: file content, raw and cleaned table
    categorized,   \* discover_files' result: bucket -> sequence of paths
    data_dict,     \* domain -> loaded table, or None
    results,       \* DataAnalyzer.results: domain -> metrics record
    alerts,        \* DataAnalyzer.alerts: sequence of alerts
    kpis,          \* the mapping get_kpi_summary returned last
    report,        \* what create_report was handed, or NoReport
    calls,         \* bookkeeping of analyze_all invocations
    today,         \* the day the analysis runs (datetime.now())
    column_names,  \* the column-name list under resolution
    resolved,      \* role -> column name, as resolved last
    name           \* column name under standardisation, and its images

vars == <<pc, csv_files, opened, loader, categorized, data_dict, results, alerts,
          kpis, report, calls, today, column_names, resolved, name>>

----------------------------------------------------------------------------
(* Bounds of the model.                                                    *)

MaxFiles == 2
MaxNameLen == 3
MaxCols == 3
MaxEdits == 2
MaxCalls == 2
MaxRows == 2

----------------------------------------------------------------------------
(* Strings.                                                                *)

None == "None"

UpperChars == "ABCDEFGHIJKLMNOPQRSTUVWXYZ"
LowerChars == "abcdefghijklmnopqrstuvwxyz"
DigitChars == "0123456789"

Char(s, i) == SubSeq(s, i, i)
Rest(s) == SubSeq(s, 2, Len(s))

\* Python's `p in s` for strings.
Contains(s, p) ==
    \E i \in 1..(Len(s) - Len(p) + 1) : SubSeq(s, i, i + Len(p) - 1) = p

\* any(key in s for key in keys)
ContainsAny(s, keys) == \E k \in keys : Contains(s, k)

CharsOf(alphabet) == {Char(alphabet, i) : i \in 1..Len(alphabet)}

\* The position of a character in an alphabet, 0 when it is not in it.
IndexIn(alphabet, c) ==
    IF \E i \in 1..Len(alphabet) : Char(alphabet, i) = c
    THEN CHOOSE i \in 1..Len(alphabet) : Char(alphabet, i) = c
    ELSE 0

UpperSet == CharsOf(UpperChars)
LowerSet == CharsOf(LowerChars)
DigitSet == CharsOf(DigitChars)
LowerOf == [c \in UpperSet |-> Char(LowerChars, IndexIn(UpperChars, c))]
DigitValueOf == [c \in DigitSet |-> IndexIn(DigitChars, c) - 1]

LowerChar(c) == IF c \in UpperSet THEN LowerOf[c] ELSE c

RECURSIVE Lower(_)
\* str.lower()
Lower(s) == IF s = "" THEN "" ELSE LowerChar(Char(s, 1)) \o Lower(Rest(s))

IsSpace(c) == c \in {" ", "\t"}
IsWordChar(c) == c \in UpperSet \/ c \in LowerSet \/ c \in DigitSet \/ c = "_"

RECURSIVE LStrip(_)
LStrip(s) == IF s # "" /\ IsSpace(Char(s, 1)) THEN LStrip(Rest(s)) ELSE s

RECURSIVE RStrip(_)
RStrip(s) ==
    IF s # "" /\ IsSpace(Char(s, Len(s))) THEN RStrip(SubSeq(s, 1, Len(s) - 1))
    ELSE s

\* str.strip()
Strip(s) == RStrip(LStrip(s))

RECURSIVE ReplaceSpecial(_)
\* re.sub(r'[^\w\s]', '_', s): every character that is neither a word
\* character nor whitespace becomes an underscore.
ReplaceSpecial(s) ==
    IF s = "" THEN ""
    ELSE (IF IsWordChar(Char(s, 1)) \/ IsSpace(Char(s, 1)) THEN Char(s, 1) ELSE "_")
         \o ReplaceSpecial(Rest(s))

RECURSIVE ReplaceSpaces(_)
\* re.sub(r'\s+', '_', s): every maximal run of whitespace becomes one
\* underscore.
ReplaceSpaces(s) ==
    IF s = "" THEN ""
    ELSE IF IsSpace(Char(s, 1)) THEN "_" \o ReplaceSpaces(LStrip(s))
    ELSE Char(s, 1) \o ReplaceSpaces(Rest(s))

RECURSIVE CollapseUnderscores(_)
\* re.sub(r'_+', '_', s): every maximal run of underscores becomes one.
CollapseUnderscores(s) ==
    IF s = "" THEN ""
    ELSE IF Char(s, 1) = "_" /\ Len(s) > 1 /\ Char(s, 2) = "_"
         THEN CollapseUnderscores(Rest(s))
    ELSE Char(s, 1) \o CollapseUnderscores(Rest(s))

\* A plausible slip: the underscore runs are collapsed before the
\* whitespace runs are turned into underscores.
standardize_collapse_first(n) ==
    ReplaceSpaces(CollapseUnderscores(ReplaceSpecial(Strip(Lower(n)))))

\* DataLoader._standardize_column_name
standardize_column_name(n) ==
    CollapseUnderscores(ReplaceSpaces(ReplaceSpecial(Strip(Lower(n)))))
----------------------------------------------------------------------------
(* File discovery and classification: DataLoader.discover_files.           *)

Domains == <<"sales", "inventory", "advertising", "reviews">>
DomainSet == {"sales", "inventory", "advertising", "reviews"}
Buckets == DomainSet \cup {"other"}

SalesFilePatterns == {"sales", "transaction", "order"}
InventoryFilePatterns == {"inventory", "stock"}
AdvertisingFilePatterns == {"ad", "spend", "campaign"}
ReviewsFilePatterns == {"review", "rating"}

\* A plausible slip: the advertising test comes before the sales test.
BucketOfAdvertisingFirst(path) ==
    LET filename == Lower(path) IN
    IF ContainsAny(filename, AdvertisingFilePatterns) THEN "advertising"
    ELSE IF ContainsAny(filename, SalesFilePatterns) THEN "sales"
    ELSE IF ContainsAny(filename, InventoryFilePatterns) THEN "inventory"
    ELSE IF ContainsAny(filename, ReviewsFilePatterns) THEN "reviews"
    ELSE "other"

\* The if/elif chain of discover_files' loop body.
BucketOf(path) ==
    LET filename == Lower(path) IN
    IF ContainsAny(filename, SalesFilePatterns) THEN "sales"
    ELSE IF ContainsAny(filename, InventoryFilePatterns) THEN "inventory"
    ELSE IF ContainsAny(filename, AdvertisingFilePatterns) THEN "advertising"
    ELSE IF ContainsAny(filename, ReviewsFilePatterns) THEN "reviews"
    ELSE "other"

EmptyBuckets == [b \in Buckets |-> <<>>]

RECURSIVE Categorize(_, _)
\* The loop of discover_files: each path is appended to one bucket, in
\* listing order.
Categorize(files, acc) ==
    IF files = <<>> THEN acc
    ELSE LET b == BucketOf(Head(files)) IN
         Categorize(Tail(files), [acc EXCEPT ![b] = Append(@, Head(files))])

\* The value discover_files returns for a directory listing.
discover_files(files) == Categorize(files, EmptyBuckets)

----------------------------------------------------------------------------
(* Column resolution: the first-match scans of the analyzers and of the    *)
(* loader's _find_date_column.                                             *)

RevenueKeys == {"total", "revenue", "amount", "price"}
QuantityKeys == {"quantity", "qty"}
LoaderDateKeys == {"date", "time", "order_date", "transaction_date"}

SalesRoles == {"revenue", "quantity", "date", "product"}
InventoryRoles == {"stock", "days"}
AdvertisingRoles == {"spend", "clicks", "impressions"}

RolesOf(domain) ==
    CASE domain = "sales" -> SalesRoles
      [] domain = "inventory" -> InventoryRoles
      [] domain = "advertising" -> AdvertisingRoles
      [] OTHER -> {}

\* The test each scan applies to one column name.
ColumnMatches(role, col) ==
    LET col_lower == Lower(col) IN
    CASE role = "revenue" ->
           ContainsAny(col_lower, RevenueKeys) /\ ~Contains(col_lower, "unit")
      [] role = "quantity" -> ContainsAny(col_lower, QuantityKeys)
      [] role = "date" -> Contains(col_lower, "date")
      [] role = "product" ->
           Contains(col_lower, "product") /\ Contains(col_lower, "name")
      [] role = "stock" ->
           Contains(col_lower, "stock")
           /\ (Contains(col_lower, "current") \/ Contains(col_lower, "available"))
      [] role = "days" -> Contains(col_lower, "days")
      [] role = "spend" -> Contains(col_lower, "spend")
      [] role = "clicks" -> Contains(col_lower, "clicks")
      [] role = "impressions" -> Contains(col_lower, "impressions")
      [] role = "loader_date" -> ContainsAny(col_lower, LoaderDateKeys)
      [] OTHER -> FALSE

RECURSIVE LastColumn(_, _)
\* A plausible slip: the scan has no break, so the last match wins.
LastColumn(role, cols) ==
    IF cols = <<>> THEN None
    ELSE IF ColumnMatches(role, cols[Len(cols)]) THEN cols[Len(cols)]
    ELSE LastColumn(role, SubSeq(cols, 1, Len(cols) - 1))

\* A plausible slip: the break sits outside the if, so only the first
\* column is ever tested.
OnlyHeadColumn(role, cols) ==
    IF cols # <<>> /\ ColumnMatches(role, Head(cols)) THEN Head(cols) ELSE None

RECURSIVE FirstColumn(_, _)
\* for col in columns: if <test>: found = col; break   (None when no match)
FirstColumn(role, cols) ==
    IF cols = <<>> THEN None
    ELSE IF ColumnMatches(role, Head(cols)) THEN Head(cols)
    ELSE FirstColumn(role, Tail(cols))

\* The role-to-column mapping one domain's analyzer works with.
ResolveColumns(domain, cols) ==
    [role \in RolesOf(domain) |-> FirstColumn(role, cols)]

\* DataLoader._find_date_column
find_date_column(cols) == FirstColumn("loader_date", cols)

----------------------------------------------------------------------------
(* Tables and cells.                                                       *)
(*                                                                         *)
(* A file's content is CSV text: a header and rows of text cells, or       *)
(* Unreadable when pd.read_csv raises on it.  A loaded table (DataFrame)   *)
(* has columns and rows of typed cells.                                    *)

Num(n) == [t |-> "num", v |-> n]
Str(s) == [t |-> "str", v |-> s]
Date(y, m, d) == [t |-> "date", y |-> y, m |-> m, d |-> d]
NaN == [t |-> "nan"]

IsNum(c) == c.t = "num"
IsStr(c) == c.t = "str"
IsDate(c) == c.t = "date"
IsNaN(c) == c.t = "nan"

Unreadable == [unreadable |-> TRUE]
IsUnreadable(content) == "unreadable" \in DOMAIN content

NoTable == [none |-> TRUE]
IsNone(table) == "none" \in DOMAIN table

Csv(columns, rows) == [columns |-> columns, rows |-> rows]

Indices(seq) == 1..Len(seq)

\* The position of the first column called col (pandas' df[col] for a
\* unique name), 0 when there is none.
ColumnIndex(table, col) ==
    IF \E i \in Indices(table.columns) : table.columns[i] = col
    THEN CHOOSE i \in Indices(table.columns) :
            /\ table.columns[i] = col
            /\ \A j \in 1..(i - 1) : table.columns[j] # col
    ELSE 0

HasColumn(table, col) == ColumnIndex(table, col) > 0

\* df[col] as a sequence of cells, in row order.
Column(table, col) ==
    [r \in Indices(table.rows) |-> table.rows[r][ColumnIndex(table, col)]]

RECURSIVE AllDigits(_)
AllDigits(s) ==
    s = "" \/ (Char(s, 1) \in DigitSet /\ AllDigits(Rest(s)))

\* Text that parses as a (whole) number: digits with an optional sign.
IsNumeric(s) ==
    IF s # "" /\ Char(s, 1) = "-" THEN Len(s) > 1 /\ AllDigits(Rest(s))
    ELSE s # "" /\ AllDigits(s)

RECURSIVE DigitsValue(_, _)
DigitsValue(s, acc) ==
    IF s = "" THEN acc
    ELSE DigitsValue(Rest(s), 10 * acc + DigitValueOf[Char(s, 1)])

ParseInt(s) ==
    IF Char(s, 1) = "-" THEN 0 - DigitsValue(Rest(s), 0) ELSE DigitsValue(s, 0)

\* The type inference of pd.read_csv for one column: a column whose
\* non-empty cells are all numbers is numeric, any other column keeps its
\* text (object dtype); an empty cell is NaN either way.
ReadColumnCell(text, numeric) ==
    IF text = "" THEN NaN
    ELSE IF numeric THEN Num(ParseInt(text))
    ELSE Str(text)

\* pd.read_csv on a readable file.
read_csv(content) ==
    LET numeric(i) ==
            \A r \in Indices(content.rows) :
                content.rows[r][i] = "" \/ IsNumeric(content.rows[r][i])
    IN [columns |-> content.columns,
        rows |-> [r \in Indices(content.rows) |->
                    [i \in Indices(content.columns) |->
                        ReadColumnCell(content.rows[r][i], numeric(i))]]]

\* A column of object dtype: one that holds text.
IsObjectColumn(table, col) ==
    \E r \in Indices(table.rows) : IsStr(Column(table, col)[r])

\* pd.to_numeric(..., errors='coerce') on one cell.
to_numeric(cell) ==
    IF IsNum(cell) THEN cell
    ELSE IF IsStr(cell) /\ IsNumeric(cell.v) THEN Num(ParseInt(cell.v))
    ELSE NaN

DaysInMonth(y, m) ==
    IF m \in {4, 6, 9, 11} THEN 30
    ELSE IF m # 2 THEN 31
    ELSE IF (y % 4 = 0 /\ y % 100 # 0) \/ y % 400 = 0 THEN 29
    ELSE 28

\* Text of the form YYYY-MM-DD that names a day of the calendar.
IsDateText(s) ==
    /\ Len(s) = 10
    /\ Char(s, 5) = "-" /\ Char(s, 8) = "-"
    /\ AllDigits(SubSeq(s, 1, 4)) /\ AllDigits(SubSeq(s, 6, 7))
    /\ AllDigits(SubSeq(s, 9, 10))
    /\ ParseInt(SubSeq(s, 6, 7)) \in 1..12
    /\ ParseInt(SubSeq(s, 9, 10)) \in
          1..DaysInMonth(ParseInt(SubSeq(s, 1, 4)), ParseInt(SubSeq(s, 6, 7)))

\* pd.to_datetime(..., errors='coerce') on one cell; a number counts
\* nanoseconds from 1970-01-01, NaT is NaN.
to_datetime(cell) ==
    IF IsDate(cell) THEN cell
    ELSE IF IsNum(cell) THEN Date(1970, 1, 1)
    ELSE IF IsStr(cell) /\ IsDateText(cell.v)
         THEN Date(ParseInt(SubSeq(cell.v, 1, 4)), ParseInt(SubSeq(cell.v, 6, 7)),
                   ParseInt(SubSeq(cell.v, 9, 10)))
    ELSE NaN

\* fillna(0)
fillna0(cell) == IF IsNaN(cell) THEN Num(0) ELSE cell

----------------------------------------------------------------------------
(* Loading and cleaning: DataLoader.load_<domain>_data.                    *)

SalesNumericPatterns ==
    {"quantity", "price", "total", "amount", "qty", "cost", "revenue"}
InventoryNumericPatterns ==
    {"stock", "quantity", "qty", "days", "supply", "inbound"}

\* df[col] is a single column only when the name occurs once; with a
\* repeated name the conversion raises and the handler leaves the column.
IsUniqueName(columns, col) ==
    Cardinality({i \in Indices(columns) : columns[i] = col}) = 1

ApplyKind(kind, cell) ==
    CASE kind = "datetime" -> to_datetime(cell)
      [] kind = "numeric" -> to_numeric(cell)
      [] kind = "numeric0" -> fillna0(to_numeric(cell))
      [] OTHER -> cell

\* The table with each column i converted as kinds[i] says.
Coerce(table, kinds) ==
    [table EXCEPT !.rows =
        [r \in Indices(table.rows) |->
            [i \in Indices(table.columns) |-> ApplyKind(kinds[i], table.rows[r][i])]]]

\* A variant that keeps one column per standardised name, the first.
StandardizeColumnsFirstOfName(table) ==
    LET names == [i \in Indices(table.columns) |->
                    standardize_column_name(table.columns[i])]
        kept[i \in 0..Len(names)] ==
            IF i = 0 THEN <<>>
            ELSE IF \E j \in 1..(i - 1) : names[j] = names[i] THEN kept[i - 1]
            ELSE Append(kept[i - 1], i)
        keep == kept[Len(names)]
    IN [columns |-> [k \in Indices(keep) |-> names[keep[k]]],
        rows |-> [r \in Indices(table.rows) |->
                    [k \in Indices(keep) |-> table.rows[r][keep[k]]]]]

\* df.columns = [self._standardize_column_name(col) for col in df.columns]
StandardizeColumns(table) ==
    [table EXCEPT !.columns =
        [i \in Indices(table.columns) |-> standardize_column_name(table.columns[i])]]

\* DataLoader._clean_sales_data: the date column is parsed, then every
\* column whose name has a numeric pattern is coerced, failures left null.
clean_sales_data(df) ==
    LET date_col == find_date_column(df.columns)
        dated == Coerce(df, [i \in Indices(df.columns) |->
                    IF /\ date_col # None /\ date_col # ""
                       /\ df.columns[i] = date_col
                       /\ IsUniqueName(df.columns, date_col)
                    THEN "datetime" ELSE "keep"])
    IN Coerce(dated, [i \in Indices(df.columns) |->
            IF /\ ContainsAny(Lower(df.columns[i]), SalesNumericPatterns)
               /\ IsUniqueName(df.columns, df.columns[i])
            THEN "numeric" ELSE "keep"])

\* DataLoader._clean_inventory_data: every column whose name has a numeric
\* pattern is coerced, failures replaced by 0.
clean_inventory_data(df) ==
    Coerce(df, [i \in Indices(df.columns) |->
        IF /\ ContainsAny(Lower(df.columns[i]), InventoryNumericPatterns)
           /\ IsUniqueName(df.columns, df.columns[i])
        THEN "numeric0" ELSE "keep"])

Raised == [raised |-> TRUE]
HasRaised(x) == "raised" \in DOMAIN x

\* What load_<domain>_data does with the content of the file it reads.
\* load_reviews_data takes df['rating'].mean() for its statistics, which
\* raises on a column of text.
LoadContent(domain, content) ==
    IF IsUnreadable(content) THEN Raised
    ELSE LET df == StandardizeColumns(read_csv(content)) IN
         CASE domain = "sales" -> clean_sales_data(df)
           [] domain = "inventory" -> clean_inventory_data(df)
           [] domain = "reviews" ->
                IF /\ HasColumn(df, "rating")
                   /\ IsUniqueName(df.columns, "rating")
                   /\ IsObjectColumn(df, "rating")
                THEN Raised ELSE df
           [] OTHER -> df

----------------------------------------------------------------------------
(* Numbers, ordering and aggregation as the analyzers use them.            *)
(*                                                                         *)
(* A metric value is a cell: Num for a whole number, Ratio for a fraction  *)
(* in lowest terms, NaN for a missing value.                               *)

Abs(n) == IF n < 0 THEN 0 - n ELSE n

RECURSIVE Gcd(_, _)
Gcd(a, b) == IF b = 0 THEN a ELSE Gcd(b, a % b)

\* The quotient n / d (d > 0) as a metric value.
Rat(n, d) ==
    LET g == Gcd(Abs(n), d) IN
    IF d = g THEN Num(n \div g)
    ELSE [t |-> "ratio", n |-> n \div g, d |-> d \div g]

IsRatio(c) == c.t = "ratio"
IsNumber(c) == IsNum(c) \/ IsRatio(c)
Numer(c) == IF IsRatio(c) THEN c.n ELSE c.v
Denom(c) == IF IsRatio(c) THEN c.d ELSE 1

\* A variant that is a <= b.
AtMost(a, b) ==
    IsNumber(a) /\ IsNumber(b) /\ Numer(a) * Denom(b) <= Numer(b) * Denom(a)

\* a < b on metric values; a comparison with NaN is false.
Less(a, b) ==
    IsNumber(a) /\ IsNumber(b) /\ Numer(a) * Denom(b) < Numer(b) * Denom(a)

RECURSIVE SumCells(_)
\* Series.sum(): the sum of the numbers of a column, nulls skipped.
SumCells(cells) ==
    IF cells = <<>> THEN 0
    ELSE (IF IsNum(Head(cells)) THEN Head(cells).v ELSE 0) + SumCells(Tail(cells))

CountCells(cells) == Cardinality({i \in Indices(cells) : IsNum(cells[i])})

\* A variant that divides by the number of rows, nulls included.
MeanCellsAllRows(cells) ==
    IF cells = <<>> THEN NaN ELSE Rat(SumCells(cells), Len(cells))

\* Series.mean(): the mean of the numbers of a column, NaN when there is
\* none.
MeanCells(cells) ==
    IF CountCells(cells) = 0 THEN NaN
    ELSE Rat(SumCells(cells), CountCells(cells))

ToNumericCells(cells) == [i \in Indices(cells) |-> to_numeric(cells[i])]

\* The rows of a sequence at the positions keep, order kept.
RECURSIVE SelectRows(_, _, _)
SelectRows(rows, keep, i) ==
    IF i > Len(rows) THEN <<>>
    ELSE (IF i \in keep THEN <<rows[i]>> ELSE <<>>) \o SelectRows(rows, keep, i + 1)

\* DataFrame.head(n)
HeadRows(rows, n) == SubSeq(rows, 1, IF Len(rows) < n THEN Len(rows) ELSE n)

\* Characters in code-point order, for comparing strings.
AsciiChars == "\t -0123456789" \o UpperChars \o "_" \o LowerChars

CharRank == [c \in CharsOf(AsciiChars) |-> IndexIn(AsciiChars, c)]

RECURSIVE StrLess(_, _)
\* a < b on strings.
StrLess(a, b) ==
    IF b = "" THEN FALSE
    ELSE IF a = "" THEN TRUE
    ELSE IF Char(a, 1) = Char(b, 1) THEN StrLess(Rest(a), Rest(b))
    ELSE CharRank[Char(a, 1)] < CharRank[Char(b, 1)]

RECURSIVE SortedStrings(_)
\* The strings of a set in ascending order: the group keys of a groupby.
SortedStrings(S) ==
    IF S = {} THEN <<>>
    ELSE LET m == CHOOSE x \in S : \A y \in S : ~StrLess(y, x) IN
         <<m>> \o SortedStrings(S \ {m})

DigitStr(n) == Char(DigitChars, n + 1)
Pad2(n) == DigitStr((n \div 10) % 10) \o DigitStr(n % 10)
Pad4(n) == Pad2(n \div 100) \o Pad2(n % 100)

\* dt.strftime('%Y-%m') on one cell; NaT gives NaN.
strftime_month(cell) ==
    IF IsDate(cell) THEN Str(Pad4(cell.y) \o "-" \o Pad2(cell.m)) ELSE NaN

DaysBeforeMonth(y, m) ==
    LET RECURSIVE acc(_)
        acc(k) == IF k = 0 THEN 0 ELSE DaysInMonth(y, k) + acc(k - 1)
    IN acc(m - 1)

\* The day number of a date (proleptic Gregorian ordinal).
Ordinal(date) ==
    LET y == date.y - 1 IN
    365 * y + (y \div 4) - (y \div 100) + (y \div 400)
    + DaysBeforeMonth(date.y, date.m) + date.d

\* df[name] = cells: the column is replaced when the name exists and is
\* appended otherwise.
SetColumn(table, col, cells) ==
    IF HasColumn(table, col)
    THEN [table EXCEPT !.rows =
            [r \in Indices(table.rows) |->
                [table.rows[r] EXCEPT ![ColumnIndex(table, col)] = cells[r]]]]
    ELSE [columns |-> Append(table.columns, col),
          rows |-> [r \in Indices(table.rows) |-> Append(table.rows[r], cells[r])]]

----------------------------------------------------------------------------
(* Config.THRESHOLDS and the alerts.                                       *)

low_stock_days == 7
overstock_days == 30
critical_stock_days == 3
high_acos == 40
low_rating == 3
sales_decline_pct == 10
RecentDays == 30
TopProducts == 10
TopCampaigns == 10
HighAcosShown == 5
HeadShown == 10

\* An alert; n stands for the number its message reports.
Alert(type, level, title, n) ==
    [type |-> type, level |-> level, title |-> title, n |-> n]

\* A small table held as a metric value.
Frame(rows) == [t |-> "frame", rows |-> rows]

\* dict.get(key, 0) on a metrics record.
Get(metrics, key) == IF key \in DOMAIN metrics THEN metrics[key] ELSE Num(0)

----------------------------------------------------------------------------
(* DataAnalyzer._analyze_sales.                                            *)
(* Each analyzer yields the metrics record it stores in results, the       *)
(* alerts it appends, and the table as it leaves it.                       *)

\* A variant that keeps the month labels in the order of their first row,
\* as groupby(sort=False) would.
MonthlySalesFirstSeen(months, revenue) ==
    LET first == SelectRows(months,
                    {r \in Indices(months) :
                        IsStr(months[r]) /\ \A q \in 1..(r - 1) : months[q] # months[r]}, 1)
    IN [k \in Indices(first) |->
            [month |-> first[k].v,
             revenue |-> SumCells(SelectRows(revenue,
                            {r \in Indices(months) : months[r] = first[k]}, 1))]]

\* The rows of monthly_sales: one per month label, labels ascending, with
\* the month's revenue sum.
MonthlySales(months, revenue) ==
    LET labels == SortedStrings({months[r].v : r \in {q \in Indices(months) : IsStr(months[q])}})
    IN [k \in Indices(labels) |->
            [month |-> labels[k],
             revenue |-> SumCells(SelectRows(revenue,
                            {r \in Indices(months) : months[r] = Str(labels[k])}, 1))]]

\* A variant whose guard is prev_month != 0.
GrowthPreviousNonzero(monthly_sales) ==
    IF Len(monthly_sales) > 1 /\ monthly_sales[Len(monthly_sales) - 1].revenue # 0
    THEN LET last_month == monthly_sales[Len(monthly_sales)].revenue
             prev_month == monthly_sales[Len(monthly_sales) - 1].revenue
         IN ("monthly_growth" :>
                IF prev_month > 0 THEN Rat((last_month - prev_month) * 100, prev_month)
                ELSE Rat((prev_month - last_month) * 100, 0 - prev_month))
    ELSE <<>>

\* The growth entry of the sales metrics: present when there are at least
\* two months and the previous month's revenue is positive.
Growth(monthly_sales) ==
    IF Len(monthly_sales) > 1 /\ monthly_sales[Len(monthly_sales) - 1].revenue > 0
    THEN LET last_month == monthly_sales[Len(monthly_sales)].revenue
             prev_month == monthly_sales[Len(monthly_sales) - 1].revenue
         IN ("monthly_growth" :> Rat((last_month - prev_month) * 100, prev_month))
    ELSE <<>>

RECURSIVE SortAsc(_, _)
\* A variant that sorts in ascending order.
SortAsc(rows, key) ==
    IF rows = <<>> THEN <<>>
    ELSE LET i == CHOOSE k \in Indices(rows) :
                    /\ \A j \in Indices(rows) : rows[k][key] <= rows[j][key]
                    /\ \A j \in 1..(k - 1) : rows[k][key] < rows[j][key]
         IN <<rows[i]>> \o SortAsc(SelectRows(rows, Indices(rows) \ {i}, 1), key)

RECURSIVE SortDesc(_, _)
\* sort_values(key, ascending=False), equal values left in the order they
\* had.
SortDesc(rows, key) ==
    IF rows = <<>> THEN <<>>
    ELSE LET i == CHOOSE k \in Indices(rows) :
                    /\ \A j \in Indices(rows) : rows[j][key] <= rows[k][key]
                    /\ \A j \in 1..(k - 1) : rows[j][key] < rows[k][key]
         IN <<rows[i]>> \o SortDesc(SelectRows(rows, Indices(rows) \ {i}, 1), key)

\* The product performance table: one row per product name, names
\* ascending, with revenue (and quantity) summed.
ProductPerformance(df, product_col, revenue_col, quantity_col) ==
    LET products == Column(df, product_col)
        present == {r \in Indices(products) : ~IsNaN(products[r])}
        keys == SortedStrings({products[r].v : r \in present})
        of(k) == {r \in present : products[r].v = keys[k]}
    IN [k \in Indices(keys) |->
            [product |-> keys[k],
             total_revenue |-> SumCells(SelectRows(Column(df, revenue_col), of(k), 1))]
            @@ (IF quantity_col # None
                THEN [total_quantity |->
                        SumCells(SelectRows(Column(df, quantity_col), of(k), 1))]
                ELSE <<>>)]

\* The date-derived metrics and the table with its two helper columns.
SalesByDate(df, date_col, revenue_col, day) ==
    LET dates == [r \in Indices(df.rows) |-> to_datetime(Column(df, date_col)[r])]
        months == [r \in Indices(df.rows) |-> strftime_month(dates[r])]
        df2 == SetColumn(SetColumn(df, "_date", dates), "_month_str", months)
        monthly_sales == MonthlySales(months, Column(df, revenue_col))
        recent == {r \in Indices(dates) :
                      IsDate(dates[r]) /\ Ordinal(dates[r]) > Ordinal(day) - RecentDays}
    IN [table |-> df2,
        metrics |->
            IF revenue_col = None THEN <<>>
            ELSE ("monthly_trends" :> Frame(monthly_sales))
                 @@ ("recent_transactions" :> Num(Cardinality(recent)))
                 @@ ("recent_revenue" :>
                        Num(SumCells(SelectRows(Column(df, revenue_col), recent, 1))))
                 @@ Growth(monthly_sales)]

analyze_sales(sales_df, day) ==
    LET revenue_col == FirstColumn("revenue", sales_df.columns)
        quantity_col == FirstColumn("quantity", sales_df.columns)
        date_col == FirstColumn("date", sales_df.columns)
        product_col == FirstColumn("product", sales_df.columns)
        basic ==
            ("total_transactions" :> Num(Len(sales_df.rows)))
            @@ ("total_quantity" :>
                    IF quantity_col # None
                    THEN Num(SumCells(Column(sales_df, quantity_col))) ELSE Num(0))
            @@ ("total_revenue" :>
                    IF revenue_col # None
                    THEN Num(SumCells(Column(sales_df, revenue_col))) ELSE Num(0))
            @@ ("avg_order_value" :>
                    IF revenue_col # None
                    THEN MeanCells(Column(sales_df, revenue_col)) ELSE Num(0))
        by_date ==
            IF date_col # None /\ IsUniqueName(sales_df.columns, date_col)
            THEN SalesByDate(sales_df, date_col, revenue_col, day)
            ELSE [table |-> sales_df, metrics |-> <<>>]
        top ==
            IF product_col # None /\ revenue_col # None
            THEN ("top_products" :>
                    Frame(HeadRows(SortDesc(
                        ProductPerformance(sales_df, product_col, revenue_col,
                                           quantity_col), "total_revenue"),
                        TopProducts)))
            ELSE <<>>
        sales_metrics == basic @@ by_date.metrics @@ top
    IN [metrics |-> sales_metrics,
        alerts |->
            IF Less(Get(sales_metrics, "monthly_growth"), Num(0 - sales_decline_pct))
            THEN <<Alert("sales", "warning", "Sales Decline",
                         sales_metrics["monthly_growth"])>>
            ELSE <<>>,
        table |-> by_date.table]

----------------------------------------------------------------------------
(* DataAnalyzer._analyze_inventory.                                        *)

\* A plausible slip: the overstock alert is appended before the low-stock
\* alerts.
InventoryAlertsOverstockFirst(days) ==
    LET low_stock == {r \in Indices(days) : Less(days[r], Num(low_stock_days))}
        overstock == {r \in Indices(days) : Less(Num(overstock_days), days[r])}
        critical_low == {r \in low_stock : Less(days[r], Num(critical_stock_days))}
    IN (IF overstock # {}
        THEN <<Alert("inventory", "info", "Overstock Detected",
                     Num(Cardinality(overstock)))>>
        ELSE <<>>)
       \o (IF critical_low # {}
           THEN <<Alert("inventory", "critical", "Critical Stock Shortage",
                        Num(Cardinality(critical_low)))>>
           ELSE <<>>)
       \o (IF low_stock # {}
           THEN <<Alert("inventory", "warning", "Low Stock Alert",
                        Num(Cardinality(low_stock)))>>
           ELSE <<>>)

\* A variant whose critical group leaves out the rows with no days left.
InventoryAlertsCriticalPositive(days) ==
    LET low_stock == {r \in Indices(days) : Less(days[r], Num(low_stock_days))}
        overstock == {r \in Indices(days) : Less(Num(overstock_days), days[r])}
        critical_low == {r \in low_stock : /\ Less(Num(0), days[r])
                                           /\ Less(days[r], Num(critical_stock_days))}
    IN (IF critical_low # {}
        THEN <<Alert("inventory", "critical", "Critical Stock Shortage",
                     Num(Cardinality(critical_low)))>>
        ELSE <<>>)
       \o (IF low_stock # {}
           THEN <<Alert("inventory", "warning", "Low Stock Alert",
                        Num(Cardinality(low_stock)))>>
           ELSE <<>>)
       \o (IF overstock # {}
           THEN <<Alert("inventory", "info", "Overstock Detected",
                        Num(Cardinality(overstock)))>>
           ELSE <<>>)

\* The alerts of the low-stock analysis, in the order they are appended.
InventoryAlerts(days) ==
    LET low_stock == {r \in Indices(days) : Less(days[r], Num(low_stock_days))}
        overstock == {r \in Indices(days) : Less(Num(overstock_days), days[r])}
        critical_low == {r \in low_stock : Less(days[r], Num(critical_stock_days))}
    IN (IF critical_low # {}
        THEN <<Alert("inventory", "critical", "Critical Stock Shortage",
                     Num(Cardinality(critical_low)))>>
        ELSE <<>>)
       \o (IF low_stock # {}
           THEN <<Alert("inventory", "warning", "Low Stock Alert",
                        Num(Cardinality(low_stock)))>>
           ELSE <<>>)
       \o (IF overstock # {}
           THEN <<Alert("inventory", "info", "Overstock Detected",
                        Num(Cardinality(overstock)))>>
           ELSE <<>>)

\* The metrics of the low-stock analysis.
InventoryDaysMetrics(inventory_df, days) ==
    LET low_stock == {r \in Indices(days) : Less(days[r], Num(low_stock_days))}
        overstock == {r \in Indices(days) : Less(Num(overstock_days), days[r])}
    IN ("low_stock_count" :> Num(Cardinality(low_stock)))
       @@ ("overstock_count" :> Num(Cardinality(overstock)))
       @@ ("low_stock_products" :>
              Frame(HeadRows(SelectRows(inventory_df.rows, low_stock, 1), HeadShown)))
       @@ ("overstock_products" :>
              Frame(HeadRows(SelectRows(inventory_df.rows, overstock, 1), HeadShown)))

\* A variant whose metrics start with total_stock at 0.
analyze_inventory_stock_default(inventory_df) ==
    LET stock_col == FirstColumn("stock", inventory_df.columns)
        days_col == FirstColumn("days", inventory_df.columns)
        stock_ok == stock_col # None /\ IsUniqueName(inventory_df.columns, stock_col)
        days_ok == stock_ok /\ days_col # None
                   /\ IsUniqueName(inventory_df.columns, days_col)
        days == ToNumericCells(Column(inventory_df, days_col))
    IN [metrics |->
            ("total_products" :> Num(Len(inventory_df.rows)))
            @@ ("total_stock" :>
                    IF stock_ok
                    THEN Num(SumCells(ToNumericCells(Column(inventory_df, stock_col))))
                    ELSE Num(0))
            @@ (IF days_ok THEN InventoryDaysMetrics(inventory_df, days) ELSE <<>>),
        alerts |-> IF days_ok THEN InventoryAlerts(days) ELSE <<>>,
        table |-> inventory_df]

\* DataAnalyzer._analyze_inventory: total_products always; total_stock when
\* a stock-level column resolves; the days metrics and the alerts when a
\* days-of-supply column resolves as well.
analyze_inventory(inventory_df) ==
    LET stock_col == FirstColumn("stock", inventory_df.columns)
        days_col == FirstColumn("days", inventory_df.columns)
        \* pd.to_numeric raises on a repeated column name; the handler
        \* swallows it and keeps what was computed before.
        stock_ok == stock_col # None /\ IsUniqueName(inventory_df.columns, stock_col)
        days_ok == stock_ok /\ days_col # None
                   /\ IsUniqueName(inventory_df.columns, days_col)
        days == ToNumericCells(Column(inventory_df, days_col))
    IN [metrics |->
            ("total_products" :> Num(Len(inventory_df.rows)))
            @@ (IF stock_ok
                THEN ("total_stock" :>
                        Num(SumCells(ToNumericCells(Column(inventory_df, stock_col)))))
                ELSE <<>>)
            @@ (IF days_ok THEN InventoryDaysMetrics(inventory_df, days) ELSE <<>>),
        alerts |-> IF days_ok THEN InventoryAlerts(days) ELSE <<>>,
        table |-> inventory_df]

----------------------------------------------------------------------------
(* DataAnalyzer._analyze_reviews.                                          *)

analyze_reviews(reviews_df) ==
    LET rated == HasColumn(reviews_df, "rating")
                 /\ IsUniqueName(reviews_df.columns, "rating")
        ratings == ToNumericCells(Column(reviews_df, "rating"))
        low_rated == {r \in Indices(ratings) : Less(ratings[r], Num(low_rating))}
    IN [metrics |->
            ("total_reviews" :> Num(Len(reviews_df.rows)))
            @@ (IF rated THEN ("avg_rating" :> MeanCells(ratings)) ELSE <<>>)
            @@ (IF rated /\ low_rated # {}
                THEN ("low_rated_count" :> Num(Cardinality(low_rated))) ELSE <<>>),
        alerts |->
            IF rated /\ low_rated # {}
            THEN <<Alert("reviews", "warning", "Low Ratings Alert",
                         Num(Cardinality(low_rated)))>>
            ELSE <<>>,
        table |-> reviews_df]

----------------------------------------------------------------------------
(* DataAnalyzer._analyze_advertising.                                      *)

\* The two infinities of a float division by zero.
Inf == [t |-> "inf"]
NegInf == [t |-> "-inf"]

\* n / d (d > 0) rounded to hundredths, halves to even: round(2).
Round2(n, d) ==
    LET q == (Abs(n) * 100) \div d
        r == (Abs(n) * 100) % d
        up == 2 * r > d \/ (2 * r = d /\ q % 2 = 1)
        hundredths == IF up THEN q + 1 ELSE q
    IN Rat(IF n < 0 THEN 0 - hundredths ELSE hundredths, 100)

\* sales / spend on floats: a zero divisor gives an infinity, 0 / 0 NaN.
Divide(n, d) ==
    IF d = 0 THEN (IF n > 0 THEN Inf ELSE IF n < 0 THEN NegInf ELSE NaN)
    ELSE IF d > 0 THEN Rat(n, d)
    ELSE Rat(0 - n, 0 - d)

\* .replace([np.inf, -np.inf], 0) on one cell
ReplaceInf(cell) == IF cell \in {Inf, NegInf} THEN Num(0) ELSE cell

\* .round(2) on one cell; an infinity or NaN stays what it is.
RoundCell(cell) ==
    IF IsNumber(cell) THEN Round2(Numer(cell), Denom(cell)) ELSE cell

\* A variant without the replacement of the infinities.
RoasUnreplaced(sales, spend) == RoundCell(fillna0(Divide(sales, spend)))

\* (sales / spend).replace([np.inf, -np.inf], 0).fillna(0).round(2)
Roas(sales, spend) == RoundCell(fillna0(ReplaceInf(Divide(sales, spend))))

\* The rows of campaign_performance before sorting: one per campaign name,
\* names ascending.
CampaignPerformance(df, spend_col, clicks_col, with_sales) ==
    LET names == Column(df, "campaign_name")
        present == {r \in Indices(names) : ~IsNaN(names[r])}
        keys == SortedStrings({names[r].v : r \in present})
        of(k) == {r \in present : names[r].v = keys[k]}
        total(col, k) == SumCells(SelectRows(Column(df, col), of(k), 1))
    IN [k \in Indices(keys) |->
            [campaign_name |-> keys[k],
             spend |-> total(spend_col, k),
             clicks |-> total(clicks_col, k)]
            @@ (IF with_sales
                THEN [sales |-> total("sales", k),
                      roas |-> Roas(total("sales", k), total(spend_col, k))]
                ELSE <<>>)]

\* The campaign block: its metrics and its alert.
CampaignAnalysis(df, spend_col, clicks_col) ==
    LET with_sales == HasColumn(df, "sales")
        campaign_performance == CampaignPerformance(df, spend_col, clicks_col, with_sales)
        flagged == {k \in Indices(campaign_performance) :
                       with_sales /\ Less(campaign_performance[k].roas, Rat(100, high_acos))}
    IN [metrics |->
            (IF flagged # {}
             THEN ("high_acos_campaigns" :>
                     Frame(HeadRows(SelectRows(campaign_performance, flagged, 1),
                                    HighAcosShown)))
             ELSE <<>>)
            @@ ("campaign_performance" :>
                   Frame(HeadRows(SortDesc(campaign_performance, "spend"), TopCampaigns))),
        alerts |->
            IF flagged # {}
            THEN <<Alert("advertising", "warning", "High ACOS Campaigns",
                         Num(Cardinality(flagged)))>>
            ELSE <<>>]

\* A variant whose ctr test is not nested in the avg_cpc test.
AdvertisingRatiosFlat(totals) ==
    (IF Less(Num(0), Get(totals, "total_spend"))
        /\ Less(Num(0), Get(totals, "total_clicks"))
     THEN ("avg_cpc" :> Rat(totals["total_spend"].v, totals["total_clicks"].v))
     ELSE <<>>)
    @@ (IF Less(Num(0), Get(totals, "total_clicks"))
           /\ Less(Num(0), Get(totals, "total_impressions"))
        THEN ("ctr" :> Rat(totals["total_clicks"].v * 100,
                           totals["total_impressions"].v))
        ELSE <<>>)

\* The derived ratios: avg_cpc when total spend and total clicks are
\* positive, and then ctr when total impressions are positive too.
AdvertisingRatios(totals) ==
    LET has_cpc == Less(Num(0), Get(totals, "total_spend"))
                   /\ Less(Num(0), Get(totals, "total_clicks"))
    IN (IF has_cpc
        THEN ("avg_cpc" :> Rat(totals["total_spend"].v, totals["total_clicks"].v))
        ELSE <<>>)
       @@ (IF has_cpc /\ Less(Num(0), Get(totals, "total_impressions"))
           THEN ("ctr" :> Rat(totals["total_clicks"].v * 100,
                              totals["total_impressions"].v))
           ELSE <<>>)

analyze_advertising(advertising_df) ==
    LET cols == advertising_df.columns
        spend_col == FirstColumn("spend", cols)
        clicks_col == FirstColumn("clicks", cols)
        impressions_col == FirstColumn("impressions", cols)
        total(col) == Num(SumCells(ToNumericCells(Column(advertising_df, col))))
        totals ==
            (IF spend_col # None THEN ("total_spend" :> total(spend_col)) ELSE <<>>)
            @@ (IF clicks_col # None THEN ("total_clicks" :> total(clicks_col)) ELSE <<>>)
            @@ (IF impressions_col # None
                THEN ("total_impressions" :> total(impressions_col)) ELSE <<>>)
        derived == AdvertisingRatios(totals)
        \* The campaign block runs inside try/except: it needs the
        \* campaign_name column and two distinct resolved columns to sum;
        \* the sum of a column of text is text, and sales / spend raises
        \* on it.
        campaign_ok ==
            /\ HasColumn(advertising_df, "campaign_name")
            /\ IsUniqueName(cols, "campaign_name")
            /\ spend_col # None /\ clicks_col # None /\ spend_col # clicks_col
            /\ (HasColumn(advertising_df, "sales")
                  => /\ IsUniqueName(cols, "sales")
                     /\ ~IsObjectColumn(advertising_df, "sales")
                     /\ ~IsObjectColumn(advertising_df, spend_col))
        campaign == CampaignAnalysis(advertising_df, spend_col, clicks_col)
    IN \* pd.to_numeric raises on a repeated column name, outside any try.
       IF \E col \in {spend_col, clicks_col, impressions_col} \ {None} :
              ~IsUniqueName(cols, col)
       THEN Raised
       ELSE [metrics |-> totals @@ derived
                         @@ (IF campaign_ok THEN campaign.metrics ELSE <<>>),
             alerts |-> IF campaign_ok THEN campaign.alerts ELSE <<>>,
             table |-> advertising_df]

----------------------------------------------------------------------------
(* DataAnalyzer.analyze_all and DataAnalyzer.get_kpi_summary.              *)

AnalyzeDomain(domain, table, day) ==
    CASE domain = "sales" -> analyze_sales(table, day)
      [] domain = "inventory" -> analyze_inventory(table)
      [] domain = "advertising" -> analyze_advertising(table)
      [] domain = "reviews" -> analyze_reviews(table)

\* The state analyze_all works on: the analyzer's results and alerts, the
\* tables it was handed, and whether an exception has left it.
\* The domains whose entry of data_dict is not None.
SuppliedIn(dd) == {d \in DomainSet : ~IsNone(dd[d])}

AnalyzerState(res, al, dd) ==
    [results |-> res, alerts |-> al, data_dict |-> dd, raised |-> FALSE]

RECURSIVE AnalyzeInOrderKeyed(_, _, _, _)
\* A variant that stores an empty metrics record for a table that is None.
AnalyzeInOrderKeyed(order, i, st, day) ==
    IF i > Len(order) THEN st
    ELSE IF IsNone(st.data_dict[order[i]])
    THEN AnalyzeInOrderKeyed(order, i + 1,
            [st EXCEPT !.results = (order[i] :> <<>>) @@ st.results], day)
    ELSE LET Record(out) ==
                 IF HasRaised(out) THEN [st EXCEPT !.raised = TRUE]
                 ELSE AnalyzeInOrderKeyed(order, i + 1,
                        [results |-> (order[i] :> out.metrics) @@ st.results,
                         alerts |-> st.alerts \o out.alerts,
                         data_dict |-> [st.data_dict EXCEPT ![order[i]] = out.table],
                         raised |-> FALSE], day)
         IN Record(AnalyzeDomain(order[i], st.data_dict[order[i]], day))

RECURSIVE AnalyzeInOrder(_, _, _, _)
\* The body of analyze_all from its i-th domain on: a table that is not
\* None is analysed, its metrics replace results[domain], its alerts are
\* appended; an exception ends the call and leaves what was done.
AnalyzeInOrder(order, i, st, day) ==
    IF i > Len(order) THEN st
    ELSE IF IsNone(st.data_dict[order[i]]) THEN AnalyzeInOrder(order, i + 1, st, day)
    ELSE LET Record(out) ==
                 IF HasRaised(out) THEN [st EXCEPT !.raised = TRUE]
                 ELSE AnalyzeInOrder(order, i + 1,
                        [results |-> (order[i] :> out.metrics) @@ st.results,
                         alerts |-> st.alerts \o out.alerts,
                         data_dict |-> [st.data_dict EXCEPT ![order[i]] = out.table],
                         raised |-> FALSE], day)
         IN Record(AnalyzeDomain(order[i], st.data_dict[order[i]], day))

\* A plausible slip: the alerts list is emptied when a call starts.
analyze_all_fresh_alerts(st, day) ==
    AnalyzeInOrder(Domains, 1, [st EXCEPT !.alerts = <<>>], day)

analyze_all(st, day) == AnalyzeInOrder(Domains, 1, st, day)

\* A plausible slip: every KPI key is written, also for an absent domain.
get_kpi_summary_all_keys(res) ==
    LET of(d) == IF d \in DOMAIN res THEN res[d] ELSE <<>> IN
    [total_revenue |-> Get(of("sales"), "total_revenue"),
     total_transactions |-> Get(of("sales"), "total_transactions"),
     avg_order_value |-> Get(of("sales"), "avg_order_value"),
     monthly_growth |-> Get(of("sales"), "monthly_growth"),
     total_products |-> Get(of("inventory"), "total_products"),
     low_stock_products |-> Get(of("inventory"), "low_stock_count"),
     overstock_products |-> Get(of("inventory"), "overstock_count"),
     total_ad_spend |-> Get(of("advertising"), "total_spend"),
     avg_cpc |-> Get(of("advertising"), "avg_cpc"),
     avg_rating |-> Get(of("reviews"), "avg_rating"),
     total_reviews |-> Get(of("reviews"), "total_reviews")]

get_kpi_summary(res) ==
    (IF "sales" \in DOMAIN res
     THEN [total_revenue |-> Get(res["sales"], "total_revenue"),
           total_transactions |-> Get(res["sales"], "total_transactions"),
           avg_order_value |-> Get(res["sales"], "avg_order_value"),
           monthly_growth |-> Get(res["sales"], "monthly_growth")]
     ELSE <<>>)
    @@ (IF "inventory" \in DOMAIN res
        THEN [total_products |-> Get(res["inventory"], "total_products"),
              low_stock_products |-> Get(res["inventory"], "low_stock_count"),
              overstock_products |-> Get(res["inventory"], "overstock_count")]
        ELSE <<>>)
    @@ (IF "advertising" \in DOMAIN res
        THEN [total_ad_spend |-> Get(res["advertising"], "total_spend"),
              avg_cpc |-> Get(res["advertising"], "avg_cpc")]
        ELSE <<>>)
    @@ (IF "reviews" \in DOMAIN res
        THEN [avg_rating |-> Get(res["reviews"], "avg_rating"),
              total_reviews |-> Get(res["reviews"], "total_reviews")]
        ELSE <<>>)

----------------------------------------------------------------------------
(* State shared by the specifications below.  Each specification drives    *)
(* some of the variables and leaves the others at their idle values.       *)

NoKpis == [none |-> TRUE]
NoReport == [none |-> TRUE]
NoDay == [none |-> TRUE]
NoCalls == [n |-> 0, base |-> 0, before |-> <<>>, supplied |-> {}]
NoData == [d \in DomainSet |-> NoTable]
NoName == [raw |-> "", once |-> "", twice |-> ""]
NoResolution == [domain |-> None, roles |-> <<>>, edits |-> 0]

IdleAnalyzer ==
    /\ data_dict = NoData /\ results = <<>> /\ alerts = <<>>
    /\ kpis = NoKpis /\ calls = NoCalls /\ today = NoDay

IdleRun ==
    /\ csv_files = <<>> /\ opened = <<>>
    /\ categorized = EmptyBuckets /\ report = NoReport

IdleResolver == column_names = <<>> /\ resolved = NoResolution

IdleNames == name = NoName

NoLoad == [domain |-> None]
IdleLoader == loader = NoLoad

SeqsUpTo(S, n) == UNION {[1..k -> S] : k \in 0..n}

----------------------------------------------------------------------------
(* SpecStd: _standardize_column_name applied to a raw name, then to its    *)
(* own result.                                                             *)

NameChars == {"a", "B", "_", " ", "-"}

RECURSIVE StringsUpTo(_)
StringsUpTo(n) ==
    IF n = 0 THEN {""}
    ELSE LET S == StringsUpTo(n - 1) IN S \cup {s \o c : s \in S, c \in NameChars}

InitStd ==
    /\ pc = "raw"
    /\ \E n \in StringsUpTo(MaxNameLen) : name = [raw |-> n, once |-> "", twice |-> ""]
    /\ IdleAnalyzer /\ IdleRun /\ IdleResolver /\ IdleLoader

StandardizeRaw ==
    /\ pc = "raw"
    /\ name' = [name EXCEPT !.once = standardize_column_name(name.raw)]
    /\ pc' = "once"
    /\ UNCHANGED <<csv_files, opened, categorized, data_dict, results, alerts, kpis,
                   report, calls, today, loader, column_names, resolved>>

StandardizeAgain ==
    /\ pc = "once"
    /\ name' = [name EXCEPT !.twice = standardize_column_name(name.once)]
    /\ pc' = "twice"
    /\ UNCHANGED <<csv_files, opened, categorized, data_dict, results, alerts, kpis,
                   report, calls, today, loader, column_names, resolved>>

NextStd == StandardizeRaw \/ StandardizeAgain

SpecStd == InitStd /\ [][NextStd]_vars

----------------------------------------------------------------------------
(* SpecResolve: the column scans of one analyzer on a column list that is  *)
(* then edited by inserting, removing or moving names no rule matches.     *)

SalesColumnPool ==
    {"unit_price", "total_amount", "Revenue", "qty", "order_date",
     "product_name", "sku"}
InventoryColumnPool ==
    {"sku", "current_stock", "stock_status", "days_of_supply", "available_stock"}

ColumnPool(domain) ==
    IF domain = "sales" THEN SalesColumnPool ELSE InventoryColumnPool

\* A name that no scan of the domain's analyzer accepts.
MatchesNoRule(domain, col) == \A role \in RolesOf(domain) : ~ColumnMatches(role, col)

InsertAt(seq, i, x) == SubSeq(seq, 1, i - 1) \o <<x>> \o SubSeq(seq, i, Len(seq))
RemoveAt(seq, i) == SubSeq(seq, 1, i - 1) \o SubSeq(seq, i + 1, Len(seq))

InitResolve ==
    /\ pc = "unresolved"
    /\ \E d \in {"sales", "inventory"} :
          /\ column_names \in SeqsUpTo(ColumnPool(d), MaxCols)
          /\ resolved = [NoResolution EXCEPT !.domain = d]
    /\ IdleAnalyzer /\ IdleRun /\ IdleNames /\ IdleLoader

\* The analyzer resolves its roles on the column list.
Resolve ==
    /\ pc = "unresolved"
    /\ resolved' = [resolved EXCEPT !.roles = ResolveColumns(resolved.domain, column_names)]
    /\ pc' = "resolved"
    /\ UNCHANGED <<csv_files, opened, categorized, data_dict, results, alerts, kpis,
                   report, calls, today, loader, column_names, name>>

\* The list is edited and the roles are resolved again on the new list.
ResolveEdited(cols) ==
    /\ pc = "resolved"
    /\ resolved.edits < MaxEdits
    /\ column_names' = cols
    /\ resolved' = [resolved EXCEPT !.roles = ResolveColumns(resolved.domain, cols),
                                    !.edits = @ + 1]
    /\ UNCHANGED <<pc, csv_files, opened, categorized, data_dict, results, alerts, kpis,
                   report, calls, today, loader, name>>

InsertUnmatched ==
    \E n \in ColumnPool(resolved.domain), i \in 1..(Len(column_names) + 1) :
        /\ Len(column_names) < MaxCols
        /\ MatchesNoRule(resolved.domain, n)
        /\ ResolveEdited(InsertAt(column_names, i, n))

RemoveUnmatched ==
    \E i \in Indices(column_names) :
        /\ MatchesNoRule(resolved.domain, column_names[i])
        /\ ResolveEdited(RemoveAt(column_names, i))

MoveUnmatched ==
    \E i \in Indices(column_names), j \in Indices(column_names) :
        /\ i # j
        /\ MatchesNoRule(resolved.domain, column_names[i])
        /\ ResolveEdited(InsertAt(RemoveAt(column_names, i), j, column_names[i]))

NextResolve == Resolve \/ InsertUnmatched \/ RemoveUnmatched \/ MoveUnmatched

SpecResolve == InitResolve /\ [][NextResolve]_vars

----------------------------------------------------------------------------
(* Input files.  A file is a header and up to MaxRows rows taken from the  *)
(* rows below; the cells are the text of the CSV file.                     *)

SalesHeader == <<"Order Date", "Product Name", "Qty", "Unit Price", "Total Amount">>
SalesRowPool ==
    {<<"2023-01-05", "Lamp", "1", "100", "100">>,
     <<"2023-02-01", "Mat", "2", "40", "80">>,
     <<"2023-02-15", "Lamp", "1", "150", "150">>,
     <<"n/a", "Mat", "", "x", "">>}

InventoryHeader == <<"SKU", "Current Stock", "Days-of-Supply">>
InventoryHeaderNoStock == <<"SKU", "Stock Status", "Days-of-Supply">>
InventoryRowPool ==
    {<<"a1", "10", "2">>, <<"b2", "0", "5">>, <<"c3", "7", "45">>, <<"d4", "x", "">>}

AdvertisingHeader == <<"Campaign Name", "Spend", "Clicks", "Impressions", "Sales">>
AdvertisingHeaderTwoSpends == <<"Campaign Name", "Spend", "spend", "Clicks", "Sales">>
AdvertisingRowPool ==
    {<<"Brand", "100", "10", "1000", "500">>,
     <<"Auto", "100", "5", "500", "100">>,
     <<"Brand", "0", "0", "0", "0">>}

ReviewsHeader == <<"Rating", "Review Title">>
ReviewsHeaderNoRating == <<"Stars", "Review Title">>
ReviewsRowPool == {<<"1", "bad">>, <<"5", "good">>, <<"", "none">>, <<"five", "words">>}

HeadersOf(domain) ==
    CASE domain = "sales" -> {SalesHeader}
      [] domain = "inventory" -> {InventoryHeader, InventoryHeaderNoStock}
      [] domain = "advertising" -> {AdvertisingHeader, AdvertisingHeaderTwoSpends}
      [] domain = "reviews" -> {ReviewsHeader, ReviewsHeaderNoRating}

RowPoolOf(domain) ==
    CASE domain = "sales" -> SalesRowPool
      [] domain = "inventory" -> InventoryRowPool
      [] domain = "advertising" -> AdvertisingRowPool
      [] domain = "reviews" -> ReviewsRowPool

\* Every file content of the domain within the bound.
FilesOf(domain) ==
    {Csv(h, rows) : h \in HeadersOf(domain), rows \in SeqsUpTo(RowPoolOf(domain), MaxRows)}

\* One file per domain that raises each of the domain's alerts.
TypicalFile(domain) ==
    CASE domain = "sales" ->
           Csv(SalesHeader, <<<<"2023-01-05", "Lamp", "1", "100", "100">>,
                              <<"2023-02-01", "Mat", "2", "40", "80">>>>)
      [] domain = "inventory" ->
           Csv(InventoryHeader, <<<<"a1", "10", "2">>, <<"c3", "7", "45">>>>)
      [] domain = "advertising" ->
           Csv(AdvertisingHeader, <<<<"Brand", "100", "10", "1000", "500">>,
                                    <<"Auto", "100", "5", "500", "100">>>>)
      [] domain = "reviews" ->
           Csv(ReviewsHeader, <<<<"1", "bad">>, <<"5", "good">>>>)

\* The tables load_<domain>_data can return for the domain's files.
LoadedTables(domain, files) ==
    {LoadContent(domain, f) : f \in {g \in files : ~HasRaised(LoadContent(domain, g))}}

Todays == {Date(2023, 2, 20), Date(2023, 6, 1)}

----------------------------------------------------------------------------
(* SpecAnalyzer: one DataAnalyzer, handed a dict of loaded tables, on      *)
(* which analyze_all and get_kpi_summary are invoked.  One domain's table  *)
(* ranges over every loaded file of the domain; the other three domains    *)
(* are all absent or all have their typical table.                         *)

\* The tables a domain may have: every loaded file of the domain in
\* focus; for the other domains the typical one, or no table at all.
TableChoices(focus, others, d) ==
    IF d = focus THEN LoadedTables(d, FilesOf(d))
    ELSE IF others THEN LoadedTables(d, {TypicalFile(d)})
    ELSE {NoTable}

InitAnalyzer ==
    /\ pc = "ready"
    /\ \E focus \in DomainSet, others \in BOOLEAN :
          \E s \in TableChoices(focus, others, "sales"),
             i \in TableChoices(focus, others, "inventory"),
             a \in TableChoices(focus, others, "advertising"),
             r \in TableChoices(focus, others, "reviews") :
                data_dict = [d \in DomainSet |->
                                CASE d = "sales" -> s [] d = "inventory" -> i
                                  [] d = "advertising" -> a [] d = "reviews" -> r]
    /\ today \in Todays
    /\ results = <<>> /\ alerts = <<>> /\ kpis = NoKpis /\ calls = NoCalls
    /\ IdleRun /\ IdleResolver /\ IdleNames /\ IdleLoader

\* analyzer.analyze_all(data_dict)
AnalyzeAll ==
    /\ pc \in {"ready", "analyzed", "raised", "kpi"}
    /\ calls.n < MaxCalls
    /\ \E st \in {analyze_all(AnalyzerState(results, alerts, data_dict), today)} :
          /\ results' = st.results
          /\ alerts' = st.alerts
          /\ data_dict' = st.data_dict
          /\ pc' = IF st.raised THEN "raised" ELSE "analyzed"
    /\ calls' = [n |-> calls.n + 1, base |-> Len(alerts),
                 supplied |-> calls.supplied \cup SuppliedIn(data_dict),
                 before |-> [results |-> results, alerts |-> alerts,
                             data_dict |-> data_dict]]
    /\ UNCHANGED <<csv_files, opened, categorized, kpis, report, today, loader, column_names,
                   resolved, name>>

\* analyzer.get_kpi_summary()
GetKpiSummary ==
    /\ pc \in {"ready", "analyzed", "raised"}
    /\ kpis' = get_kpi_summary(results)
    /\ pc' = "kpi"
    /\ UNCHANGED <<csv_files, opened, categorized, data_dict, results, alerts, report,
                   calls, today, loader, column_names, resolved, name>>

NextAnalyzer == AnalyzeAll \/ GetKpiSummary

SpecAnalyzer == InitAnalyzer /\ [][NextAnalyzer]_vars

----------------------------------------------------------------------------
(* Spec: one run of the application (UIManager._run_console, and the same  *)
(* sequence in UIManager._process_files_gui) over a directory of CSV       *)
(* files: discover, load the four domains in order, analyse, write the     *)
(* report.  An exception anywhere between discovery and the report is      *)
(* caught by the handler's one outer except clause, which ends the run.    *)

\* The files a directory may hold, and what each contains.
DirectoryFiles ==
    {"sales_2023.csv", "Orders_Stock.csv", "transactions.csv", "inventory.csv",
     "stock_ad.csv", "campaign_review.csv", "download.csv", "reviews.csv",
     "rating_text.csv", "notes.csv"}

ContentOf(path) ==
    CASE path = "sales_2023.csv" -> TypicalFile("sales")
      [] path = "Orders_Stock.csv" ->
           Csv(SalesHeader, <<<<"2023-02-15", "Lamp", "1", "150", "150">>>>)
      [] path = "transactions.csv" -> Unreadable
      [] path = "inventory.csv" -> TypicalFile("inventory")
      [] path = "stock_ad.csv" -> Csv(InventoryHeaderNoStock, <<<<"b2", "0", "5">>>>)
      [] path = "campaign_review.csv" -> TypicalFile("advertising")
      [] path = "download.csv" ->
           Csv(AdvertisingHeaderTwoSpends, <<<<"Brand", "100", "10", "1000", "500">>>>)
      [] path = "reviews.csv" -> TypicalFile("reviews")
      [] path = "rating_text.csv" -> Csv(ReviewsHeader, <<<<"five", "words">>>>)
      [] OTHER -> Csv(<<"Note">>, <<>>)

\* A variant that counts the files of the four domains only.
total_files_domains(files) ==
    Len(files["sales"]) + Len(files["inventory"]) + Len(files["advertising"])
        + Len(files["reviews"])

\* total_files = sum(len(file_list) for file_list in files.values())
total_files(files) ==
    Len(files["sales"]) + Len(files["inventory"]) + Len(files["advertising"])
        + Len(files["reviews"]) + Len(files["other"])

\* A variant that reads the last path of the bucket.
load_data_last_path(domain, file_paths) ==
    IF file_paths = <<>> THEN [df |-> NoTable, read |-> <<>>]
    ELSE [df |-> LoadContent(domain, ContentOf(file_paths[Len(file_paths)])),
          read |-> <<file_paths[Len(file_paths)]>>]

\* load_<domain>_data(file_paths): None for an empty list, else the table
\* read from file_paths[0]; df is Raised when the call raises.  read is
\* the path handed to pd.read_csv.
load_data(domain, file_paths) ==
    IF file_paths = <<>> THEN [df |-> NoTable, read |-> <<>>]
    ELSE [df |-> LoadContent(domain, ContentOf(file_paths[1])),
          read |-> <<file_paths[1]>>]

SheetNames ==
    [dashboard |-> "Executive Dashboard", sales |-> "Sales Analysis",
     inventory |-> "Inventory Health", advertising |-> "Advertising ROI",
     reviews |-> "Customer Reviews", alerts |-> "Actionable Alerts"]

RawSheetNames ==
    [sales |-> "Raw Sales", inventory |-> "Raw Inventory",
     advertising |-> "Raw Advertising", reviews |-> "Raw Reviews"]

RECURSIVE DomainSheets(_, _, _)
\* The sheets added for the domains from the i-th on: the analysis sheet
\* of a table that is not None, or (raw) the raw-data sheet of a table
\* with at least one row.
DomainSheets(dd, raw, i) ==
    IF i > Len(Domains) THEN <<>>
    ELSE LET d == Domains[i]
             has == IF raw THEN ~IsNone(dd[d]) /\ Len(dd[d].rows) > 0
                    ELSE ~IsNone(dd[d])
         IN (IF has THEN <<IF raw THEN RawSheetNames[d] ELSE SheetNames[d]>>
             ELSE <<>>) \o DomainSheets(dd, raw, i + 1)

\* ExcelReportWriter.create_report: the sheets of the workbook it saves.
create_report(dd, al) ==
    [sheets |-> <<SheetNames["dashboard"]>>
                  \o DomainSheets(dd, FALSE, 1)
                  \o (IF al # <<>> THEN <<SheetNames["alerts"]>> ELSE <<>>)
                  \o DomainSheets(dd, TRUE, 1)]

LoadSteps == <<"load_sales", "load_inventory", "load_advertising", "load_reviews">>

Init ==
    /\ pc = "start"
    /\ \E files \in SeqsUpTo(DirectoryFiles, MaxFiles) :
          /\ \A i \in Indices(files), j \in Indices(files) : i # j => files[i] # files[j]
          /\ csv_files = files
    /\ today \in Todays
    /\ opened = <<>> /\ categorized = EmptyBuckets /\ report = NoReport
    /\ data_dict = NoData /\ results = <<>> /\ alerts = <<>>
    /\ kpis = NoKpis /\ calls = NoCalls
    /\ IdleResolver /\ IdleNames /\ IdleLoader

\* files = loader.discover_files(); return when total_files == 0
RunDiscover ==
    /\ pc = "start"
    /\ categorized' = discover_files(csv_files)
    /\ pc' = IF total_files(categorized') = 0 THEN "no_files" ELSE LoadSteps[1]
    /\ UNCHANGED <<csv_files, opened, data_dict, results, alerts, kpis, report,
                   calls, today, loader, column_names, resolved, name>>

\* data_dict[domain] = loader.load_<domain>_data(files[domain])
\*                         if files[domain] else None
RunLoad ==
    \E i \in Indices(LoadSteps) :
        /\ pc = LoadSteps[i]
        /\ \E got \in {load_data(Domains[i], categorized[Domains[i]])} :
              /\ opened' = opened \o got.read
              /\ IF HasRaised(got.df)
                 THEN pc' = "error" /\ data_dict' = data_dict
                 ELSE /\ data_dict' = [data_dict EXCEPT ![Domains[i]] = got.df]
                      /\ pc' = IF i < Len(LoadSteps) THEN LoadSteps[i + 1] ELSE "analyze"
        /\ UNCHANGED <<csv_files, categorized, results, alerts, kpis, report,
                       calls, today, loader, column_names, resolved, name>>

\* analyzer.analyze_all(data_dict)
RunAnalyze ==
    /\ pc = "analyze"
    /\ \E st \in {analyze_all(AnalyzerState(results, alerts, data_dict), today)} :
          /\ results' = st.results
          /\ alerts' = st.alerts
          /\ data_dict' = st.data_dict
          /\ pc' = IF st.raised THEN "error" ELSE "report"
    /\ calls' = [n |-> calls.n + 1, base |-> Len(alerts),
                 supplied |-> calls.supplied \cup SuppliedIn(data_dict),
                 before |-> [results |-> results, alerts |-> alerts,
                             data_dict |-> data_dict]]
    /\ UNCHANGED <<csv_files, opened, categorized, kpis, report, today, loader,
                   column_names, resolved, name>>

\* writer.create_report(data_dict, analyzer, output_path), then the
\* summary from analyzer.get_kpi_summary()
RunReport ==
    /\ pc = "report"
    /\ report' = create_report(data_dict, alerts)
    /\ kpis' = get_kpi_summary(results)
    /\ pc' = "done"
    /\ UNCHANGED <<csv_files, opened, categorized, data_dict, results, alerts,
                   calls, today, loader, column_names, resolved, name>>

Next == RunDiscover \/ RunLoad \/ RunAnalyze \/ RunReport

Spec == Init /\ [][Next]_vars

----------------------------------------------------------------------------
(* SpecLoad: one load_<domain>_data call on one file.  The headers mix     *)
(* columns that match the domain's numeric patterns with columns that do   *)
(* not, and include two names that standardise to the same name; the       *)
(* cells mix numbers, dates, other text and empty cells.                   *)

LoadHeaders(domain) ==
    CASE domain = "sales" ->
           {<<"Order Date", "Qty", "Note">>, <<"Qty", "QTY", "Total">>,
            <<"Note", "Unit Price", "Revenue">>}
      [] domain = "inventory" ->
           {<<"SKU", "Current Stock", "Days-of-Supply">>,
            <<"Current Stock", "current-stock", "Inbound">>,
            <<"Note", "Qty", "SKU">>}
      [] domain = "advertising" -> {<<"Campaign Name", "Spend", "spend">>}
      [] domain = "reviews" -> {<<"Review Title", "Rating", "Note">>}

LoadRowPool ==
    {<<"2023-01-05", "3", "x">>, <<"n/a", "x", "7">>, <<"", "", "">>,
     <<"7", "-2", "2023-02-01">>}

LoadFiles(domain) ==
    {Unreadable} \cup
    {Csv(h, rows) : h \in LoadHeaders(domain), rows \in SeqsUpTo(LoadRowPool, MaxRows)}

InitLoad ==
    /\ pc = "file"
    /\ \E d \in DomainSet : \E content \in LoadFiles(d) :
          loader = [domain |-> d, content |-> content, raw |-> NoTable, df |-> NoTable]
    /\ IdleAnalyzer /\ IdleRun /\ IdleResolver /\ IdleNames

\* loader.load_<domain>_data([path]): pd.read_csv, the standardised
\* column names, the domain's cleaning; an exception leaves the call.
LoadData ==
    /\ pc = "file"
    /\ \E df \in {LoadContent(loader.domain, loader.content)} :
          IF HasRaised(df)
          THEN /\ pc' = "load_error"
               /\ loader' = [loader EXCEPT
                     !.raw = IF IsUnreadable(loader.content) THEN NoTable
                             ELSE read_csv(loader.content)]
          ELSE /\ pc' = "loaded"
               /\ loader' = [loader EXCEPT !.raw = read_csv(loader.content), !.df = df]
    /\ UNCHANGED <<csv_files, opened, categorized, data_dict, results, alerts, kpis,
                   report, calls, today, column_names, resolved, name>>

NextLoad == LoadData

SpecLoad == InitLoad /\ [][NextLoad]_vars

----------------------------------------------------------------------------
(* SpecSales: a DataAnalyzer handed a sales table only.  The rows give     *)
(* months whose revenue total is positive, zero and negative, a growth of  *)
(* exactly -10 percent, and rows without a date; the headers give a date   *)
(* column named with 'date', one named with 'time', and none.              *)

SalesHeaderNoDate == <<"Day", "Product Name", "Qty", "Unit Price", "Total Amount">>
SalesHeaderNoRevenue == <<"Order Date", "Product Name", "Qty", "Unit Price", "Paid">>
SalesHeaderTime == <<"Order Time", "Product Name", "Qty", "Unit Price", "Total Amount">>

SalesMonthRowPool ==
    {<<"2023-01-05", "Lamp", "1", "150", "150">>,
     <<"2023-01-20", "Mat", "1", "-50", "-50">>,
     <<"2023-01-31", "Mat", "1", "", "">>,
     <<"2023-02-01", "Lamp", "2", "130", "260">>,
     <<"2023-02-15", "Lamp", "1", "135", "135">>,
     <<"2023-02-20", "Mat", "1", "130", "130">>,
     <<"n/a", "Mat", "", "x", "20">>}

SalesMonthFiles ==
    {Csv(h, rows) : h \in {SalesHeader, SalesHeaderNoDate, SalesHeaderNoRevenue,
                           SalesHeaderTime},
                    rows \in SeqsUpTo(SalesMonthRowPool, MaxRows)}

InitSales ==
    /\ pc = "ready"
    /\ \E t \in LoadedTables("sales", SalesMonthFiles) :
          data_dict = [NoData EXCEPT !["sales"] = t]
    /\ today \in Todays
    /\ results = <<>> /\ alerts = <<>> /\ kpis = NoKpis /\ calls = NoCalls
    /\ IdleRun /\ IdleResolver /\ IdleNames /\ IdleLoader

SpecSales == InitSales /\ [][NextAnalyzer]_vars

----------------------------------------------------------------------------
(* SpecInventory: a DataAnalyzer handed an inventory table only.  The      *)
(* headers give a table with both a stock-level and a days-of-supply       *)
(* column, one without a stock-level column, one without a                 *)
(* days-of-supply column, and one with two stock-level columns of the      *)
(* same standardised name; the rows give days values on both sides of and  *)
(* exactly at each threshold.  After the first analysis one days value     *)
(* may be lowered below the critical threshold and the table analysed      *)
(* again by a new analyzer.                                                *)

InventoryHeaderNoDays == <<"SKU", "Available Stock", "Lead Time">>
InventoryHeaderTwoStocks == <<"Current Stock", "current-stock", "Days-of-Supply">>

InventoryDaysRowPool ==
    {<<"a1", "10", "2">>, <<"b2", "0", "3">>, <<"c3", "4", "7">>,
     <<"d4", "5", "30">>, <<"e5", "7", "45">>, <<"f6", "x", "">>}

InventoryDaysFiles ==
    {Csv(h, rows) : h \in {InventoryHeader, InventoryHeaderNoStock,
                           InventoryHeaderNoDays, InventoryHeaderTwoStocks},
                    rows \in SeqsUpTo(InventoryDaysRowPool, MaxRows)}

\* The values a days cell is lowered to, all below critical_stock_days.
LoweredDays == {0 - 1, 0, 2}

InitInventory ==
    /\ pc = "ready"
    /\ \E t \in LoadedTables("inventory", InventoryDaysFiles) :
          data_dict = [NoData EXCEPT !["inventory"] = t]
    /\ today \in Todays
    /\ results = <<>> /\ alerts = <<>> /\ kpis = NoKpis /\ calls = NoCalls
    /\ IdleRun /\ IdleResolver /\ IdleNames /\ IdleLoader

\* DataAnalyzer(config).analyze_all(data_dict) on the table of the first
\* analysis with the days value of row r lowered to v: the new analyzer
\* starts with no results and no alerts.
AnalyzeLowered ==
    /\ pc = "analyzed"
    /\ calls.n = 1
    /\ \E r \in Indices(data_dict["inventory"].rows), v \in LoweredDays :
          \E days_col \in {FirstColumn("days", data_dict["inventory"].columns)} :
             /\ days_col # None
             /\ Less(Num(v), to_numeric(Column(data_dict["inventory"], days_col)[r]))
             /\ \E lowered \in
                     {SetColumn(data_dict["inventory"], days_col,
                        [Column(data_dict["inventory"], days_col) EXCEPT ![r] = Num(v)])} :
                   \E st \in {analyze_all(
                                AnalyzerState(<<>>, <<>>,
                                    [data_dict EXCEPT !["inventory"] = lowered]),
                                today)} :
                      /\ results' = st.results
                      /\ alerts' = st.alerts
                      /\ data_dict' = st.data_dict
    /\ calls' = [n |-> calls.n + 1, base |-> 0,
                 supplied |-> SuppliedIn(data_dict),
                 before |-> [results |-> results, alerts |-> alerts,
                             data_dict |-> data_dict]]
    /\ pc' = "lowered"
    /\ UNCHANGED <<csv_files, opened, categorized, kpis, report, today, loader, column_names,
                   resolved, name>>

NextInventory == AnalyzeAll \/ GetKpiSummary \/ AnalyzeLowered

SpecInventory == InitInventory /\ [][NextInventory]_vars

----------------------------------------------------------------------------
(* SpecAdvertising: a DataAnalyzer handed an advertising table only.  The  *)
(* headers give a table with all the columns the analysis looks for, one   *)
(* each without an impressions, a clicks and a sales column, and one with  *)
(* two spend columns; the rows give campaigns with and without spend,      *)
(* clicks, impressions and sales, and empty cells.                         *)

AdvertisingHeaderNoImpressions == <<"Campaign Name", "Spend", "Clicks", "Orders", "Sales">>
AdvertisingHeaderNoClicks == <<"Campaign Name", "Spend", "Taps", "Impressions", "Sales">>
AdvertisingHeaderNoSales == <<"Campaign Name", "Spend", "Clicks", "Impressions", "Orders">>

AdvertisingCaseRowPool ==
    {<<"Brand", "100", "10", "1000", "500">>,
     <<"Auto", "100", "5", "500", "100">>,
     <<"Brand", "0", "0", "0", "0">>,
     <<"Free", "0", "4", "200", "50">>,
     <<"Free", "0", "0", "0", "-20">>,
     <<"Auto", "40", "0", "0", "0">>,
     <<"Auto", "40", "8", "0", "30">>,
     <<"Misc", "", "", "", "">>}

AdvertisingCaseFiles ==
    {Csv(h, rows) : h \in {AdvertisingHeader, AdvertisingHeaderNoImpressions,
                           AdvertisingHeaderNoClicks, AdvertisingHeaderNoSales,
                           AdvertisingHeaderTwoSpends},
                    rows \in SeqsUpTo(AdvertisingCaseRowPool, MaxRows)}

InitAdvertising ==
    /\ pc = "ready"
    /\ \E t \in LoadedTables("advertising", AdvertisingCaseFiles) :
          data_dict = [NoData EXCEPT !["advertising"] = t]
    /\ today \in Todays
    /\ results = <<>> /\ alerts = <<>> /\ kpis = NoKpis /\ calls = NoCalls
    /\ IdleRun /\ IdleResolver /\ IdleNames /\ IdleLoader

SpecAdvertising == InitAdvertising /\ [][NextAnalyzer]_vars

----------------------------------------------------------------------------
(* SpecCampaigns: a DataAnalyzer handed an advertising table with one row  *)
(* for each campaign of a subset of the campaigns below, with and without  *)
(* a clicks column.  The campaigns give returns below, at and above the    *)
(* threshold 100 / high_acos, a spend of 0, and a sales cell of text; more *)
(* than HighAcosShown of them are below the threshold.                     *)

MaxCampaigns == 8

CampaignRows ==
    <<<<"Alpha", "100", "10", "1000", "100">>,
      <<"Bravo", "100", "5", "500", "200">>,
      <<"Delta", "0", "4", "200", "50">>,
      <<"Echo", "40", "8", "0", "30">>,
      <<"Golf", "10", "1", "10", "0">>,
      <<"Hotel", "200", "9", "90", "400">>,
      <<"India", "100", "10", "1000", "250">>,
      <<"Kilo", "100", "10", "1000", "n/a">>,
      <<"Lima", "30", "3", "300", "300">>,
      <<"Mike", "0", "0", "0", "0">>>>

CampaignFiles ==
    {Csv(h, SelectRows(CampaignRows, chosen, 1)) :
        h \in {AdvertisingHeader, AdvertisingHeaderNoClicks},
        chosen \in SUBSET (1 .. (IF MaxCampaigns < Len(CampaignRows)
                                  THEN MaxCampaigns ELSE Len(CampaignRows)))}

InitCampaigns ==
    /\ pc = "ready"
    /\ \E t \in LoadedTables("advertising", CampaignFiles) :
          data_dict = [NoData EXCEPT !["advertising"] = t]
    /\ today \in Todays
    /\ results = <<>> /\ alerts = <<>> /\ kpis = NoKpis /\ calls = NoCalls
    /\ IdleRun /\ IdleResolver /\ IdleNames /\ IdleLoader

SpecCampaigns == InitCampaigns /\ [][NextAnalyzer]_vars

----------------------------------------------------------------------------
(* SpecReviews: a DataAnalyzer handed a reviews table only, with one row   *)
(* for each review of a subset of the reviews below, with and without a    *)
(* rating column.  The ratings lie below, at and above low_rating, and one *)
(* is empty.                                                               *)

MaxReviews == 7

ReviewRows ==
    <<<<"1", "broke">>, <<"1", "late">>, <<"5", "great">>, <<"5", "fine">>,
      <<"3", "ok">>, <<"", "unrated">>, <<"2", "poor">>, <<"4", "good">>,
      <<"", "blank">>>>

ReviewFiles ==
    {Csv(h, SelectRows(ReviewRows, chosen, 1)) :
        h \in {ReviewsHeader, ReviewsHeaderNoRating},
        chosen \in SUBSET (1 .. (IF MaxReviews < Len(ReviewRows)
                                  THEN MaxReviews ELSE Len(ReviewRows)))}

InitReviews ==
    /\ pc = "ready"
    /\ \E t \in LoadedTables("reviews", ReviewFiles) :
          data_dict = [NoData EXCEPT !["reviews"] = t]
    /\ today \in Todays
    /\ results = <<>> /\ alerts = <<>> /\ kpis = NoKpis /\ calls = NoCalls
    /\ IdleRun /\ IdleResolver /\ IdleNames /\ IdleLoader

SpecReviews == InitReviews /\ [][NextAnalyzer]_vars

----------------------------------------------------------------------------
(* SpecProducts: a DataAnalyzer handed a sales table only, whose rows are  *)
(* a run of consecutive sales of the list below, with and without a        *)
(* quantity and a product-name column.  The list has more than TopProducts *)
(* products, a product sold twice, two products with the same revenue, a   *)
(* sale without revenue and a sale without a product name.                 *)

MaxSales == 13

SalesHeaderNoQuantity == <<"Order Date", "Product Name", "Units", "Unit Price", "Total Amount">>
SalesHeaderNoProduct == <<"Order Date", "Item", "Qty", "Unit Price", "Total Amount">>

ProductSales ==
    <<<<"2023-01-05", "Lamp", "1", "100", "100">>,
      <<"2023-01-06", "Mat", "2", "40", "80">>,
      <<"2023-01-07", "Lamp", "1", "150", "150">>,
      <<"2023-01-08", "Desk", "1", "300", "300">>,
      <<"2023-01-09", "", "1", "9", "9">>,
      <<"2023-01-10", "Chair", "3", "20", "60">>,
      <<"2023-01-11", "Shelf", "1", "80", "80">>,
      <<"2023-01-12", "Rug", "1", "", "">>,
      <<"2023-01-13", "Vase", "2", "5", "10">>,
      <<"2023-02-01", "Clock", "1", "45", "45">>,
      <<"2023-02-02", "Fan", "1", "70", "70">>,
      <<"2023-02-03", "Sofa", "1", "900", "900">>,
      <<"2023-02-04", "Bed", "1", "500", "500">>,
      <<"2023-02-05", "Pot", "4", "5", "20">>,
      <<"2023-02-06", "Mat", "1", "40", "40">>>>

ProductSalesFiles ==
    LET last == IF MaxSales < Len(ProductSales) THEN MaxSales ELSE Len(ProductSales)
    IN {Csv(h, SubSeq(ProductSales, from, to)) :
           h \in {SalesHeader, SalesHeaderNoQuantity, SalesHeaderNoProduct},
           from \in 1 .. last, to \in 0 .. last}

InitProducts ==
    /\ pc = "ready"
    /\ \E t \in LoadedTables("sales", ProductSalesFiles) :
          data_dict = [NoData EXCEPT !["sales"] = t]
    /\ today \in Todays
    /\ results = <<>> /\ alerts = <<>> /\ kpis = NoKpis /\ calls = NoCalls
    /\ IdleRun /\ IdleResolver /\ IdleNames /\ IdleLoader

SpecProducts == InitProducts /\ [][NextAnalyzer]_vars

----------------------------------------------------------------------------
(* SpecTables: a DataAnalyzer handed a sales table and, for the other      *)
(* three domains, their typical tables or none.  The sales headers give a  *)
(* table with a date column, one without, and one that has a column named  *)
(* _date next to its date column.                                          *)

SalesHeaderHelperName == <<"Order Date", "_date", "Qty", "Unit Price", "Total Amount">>

SalesTableRowPool ==
    {<<"2023-01-05", "Lamp", "1", "150", "150">>,
     <<"2023-02-01", "2023-03-09", "2", "130", "260">>,
     <<"n/a", "Mat", "", "x", "20">>}

SalesTableFiles ==
    {Csv(h, rows) : h \in {SalesHeader, SalesHeaderNoDate, SalesHeaderHelperName},
                    rows \in SeqsUpTo(SalesTableRowPool, MaxRows)}

InitTables ==
    /\ pc = "ready"
    /\ \E others \in BOOLEAN :
          \E s \in LoadedTables("sales", SalesTableFiles),
             i \in TableChoices("sales", others, "inventory"),
             a \in TableChoices("sales", others, "advertising"),
             r \in TableChoices("sales", others, "reviews") :
                data_dict = [d \in DomainSet |->
                                CASE d = "sales" -> s [] d = "inventory" -> i
                                  [] d = "advertising" -> a [] d = "reviews" -> r]
    /\ today \in Todays
    /\ results = <<>> /\ alerts = <<>> /\ kpis = NoKpis /\ calls = NoCalls
    /\ IdleRun /\ IdleResolver /\ IdleNames /\ IdleLoader

SpecTables == InitTables /\ [][NextAnalyzer]_vars

----------------------------------------------------------------------------
(* SpecStock: an inventory file is loaded by load_inventory_data and the   *)
(* table is handed to a new DataAnalyzer, as the console and the graphical *)
(* handler do.  The days-of-supply cells are numbers, empty, or text that  *)
(* is no number.                                                           *)

StockRowPool ==
    {<<"a1", "10", "2">>, <<"e5", "7", "45">>, <<"f6", "x", "">>, <<"g7", "5", "n/a">>}

StockFiles ==
    {Csv(h, rows) : h \in {InventoryHeader, InventoryHeaderNoStock,
                           InventoryHeaderNoDays},
                    rows \in SeqsUpTo(StockRowPool, MaxRows)}

InitStock ==
    /\ pc = "file"
    /\ \E content \in StockFiles :
          loader = [domain |-> "inventory", content |-> content,
                    raw |-> NoTable, df |-> NoTable]
    /\ IdleAnalyzer /\ IdleRun /\ IdleResolver /\ IdleNames

\* analyzer = DataAnalyzer(config); analyzer.analyze_all(data_dict) with the
\* loaded table as the only entry of data_dict that is not None.
AnalyzeLoaded ==
    /\ pc = "loaded"
    /\ \E st \in {analyze_all(
                     AnalyzerState(<<>>, <<>>,
                        [NoData EXCEPT ![loader.domain] = loader.df]), today)} :
          /\ results' = st.results
          /\ alerts' = st.alerts
          /\ data_dict' = st.data_dict
          /\ pc' = IF st.raised THEN "raised" ELSE "analyzed"
    /\ calls' = [n |-> 1, base |-> 0, supplied |-> {loader.domain},
                 before |-> [results |-> <<>>, alerts |-> <<>>,
                             data_dict |-> [NoData EXCEPT ![loader.domain] = loader.df]]]
    /\ UNCHANGED <<csv_files, opened, categorized, kpis, report, today, loader, column_names,
                   resolved, name>>

NextStock == LoadData \/ AnalyzeLoaded

SpecStock == InitStock /\ [][NextStock]_vars

----------------------------------------------------------------------------
(* SpecMonths: a DataAnalyzer handed a sales table whose rows are out of   *)
(* date order and span a change of year, months without sales between      *)
(* months with sales, rows without a date and rows without revenue.        *)

MaxDated == 7

DatedSales ==
    <<<<"2023-02-01", "Lamp", "2", "130", "260">>,
      <<"2022-12-28", "Mat", "1", "80", "80">>,
      <<"n/a", "Mat", "", "x", "20">>,
      <<"2023-04-10", "Lamp", "1", "90", "90">>,
      <<"2023-01-05", "Lamp", "1", "150", "150">>,
      <<"", "Rug", "1", "35", "35">>,
      <<"2023-01-20", "Mat", "1", "-50", "-50">>,
      <<"2022-12-30", "Rug", "1", "", "">>,
      <<"2023-04-11", "Rug", "1", "15", "15">>>>

DatedSalesFiles ==
    {Csv(SalesHeader, SelectRows(DatedSales, chosen, 1)) :
        chosen \in SUBSET (1 .. (IF MaxDated < Len(DatedSales)
                                  THEN MaxDated ELSE Len(DatedSales)))}

InitMonths ==
    /\ pc = "ready"
    /\ \E t \in LoadedTables("sales", DatedSalesFiles) :
          data_dict = [NoData EXCEPT !["sales"] = t]
    /\ today \in Todays
    /\ results = <<>> /\ alerts = <<>> /\ kpis = NoKpis /\ calls = NoCalls
    /\ IdleRun /\ IdleResolver /\ IdleNames /\ IdleLoader

SpecMonths == InitMonths /\ [][NextAnalyzer]_vars

----------------------------------------------------------------------------
(* SpecAlerts: one DataAnalyzer whose analyze_all is invoked repeatedly,   *)
(* with the same tables or with one of the tables no longer supplied.      *)
(* Each table is absent or one that raises every alert of its domain; the  *)
(* advertising table may also be one on which analyze_all raises.          *)

AlertTables(d) ==
    {NoTable} \cup LoadedTables(d, {TypicalFile(d)})
    \cup (IF d = "advertising"
          THEN LoadedTables(d, {Csv(AdvertisingHeaderTwoSpends,
                                    <<<<"Brand", "100", "20", "10", "100">>>>)})
          ELSE {})

InitAlerts ==
    /\ pc = "ready"
    /\ \E s \in AlertTables("sales"), i \in AlertTables("inventory"),
          a \in AlertTables("advertising"), r \in AlertTables("reviews") :
             data_dict = [d \in DomainSet |->
                             CASE d = "sales" -> s [] d = "inventory" -> i
                               [] d = "advertising" -> a [] d = "reviews" -> r]
    /\ today \in Todays
    /\ results = <<>> /\ alerts = <<>> /\ kpis = NoKpis /\ calls = NoCalls
    /\ IdleRun /\ IdleResolver /\ IdleNames /\ IdleLoader

\* analyzer.analyze_all(data_dict) on an analyzer that has analysed
\* before, with a data_dict in which one more entry is None.
AnalyzeWithout ==
    /\ pc \in {"analyzed", "raised", "kpi"}
    /\ calls.n >= 1 /\ calls.n < MaxCalls
    /\ \E d \in SuppliedIn(data_dict) :
          \E st \in {analyze_all(
                        AnalyzerState(results, alerts,
                                      [data_dict EXCEPT ![d] = NoTable]), today)} :
             /\ results' = st.results
             /\ alerts' = st.alerts
             /\ data_dict' = st.data_dict
             /\ pc' = IF st.raised THEN "raised" ELSE "analyzed"
             /\ calls' = [n |-> calls.n + 1, base |-> Len(alerts),
                          supplied |-> calls.supplied
                                         \cup (SuppliedIn(data_dict) \ {d}),
                          before |-> [results |-> results, alerts |-> alerts,
                                      data_dict |-> data_dict]]
    /\ UNCHANGED <<csv_files, opened, categorized, kpis, report, today, loader, column_names,
                   resolved, name>>

NextAlerts == AnalyzeAll \/ GetKpiSummary \/ AnalyzeWithout

SpecAlerts == InitAlerts /\ [][NextAlerts]_vars

----------------------------------------------------------------------------
(* Properties of column-name handling.                                     *)

\* C8: the revenue role resolves to the first column, in column order,
\* whose lowercased name contains one of 'total', 'revenue', 'amount',
\* 'price' and does not contain 'unit', and to None when no column
\* qualifies; unit_price then total_amount resolves to total_amount.
C8_RevenueIsFirstQualifying ==
    (pc = "resolved" /\ resolved.domain = "sales") =>
        LET qualifies(c) ==
                /\ \E key \in {"total", "revenue", "amount", "price"} :
                        Contains(Lower(c), key)
                /\ ~Contains(Lower(c), "unit")
            revenue_col == resolved.roles["revenue"]
        IN /\ \/ /\ revenue_col = None
                 /\ \A i \in Indices(column_names) : ~qualifies(column_names[i])
              \/ \E i \in Indices(column_names) :
                    /\ column_names[i] = revenue_col
                    /\ qualifies(column_names[i])
                    /\ \A j \in 1..(i - 1) : ~qualifies(column_names[j])
           /\ column_names = <<"unit_price", "total_amount">>
                => revenue_col = "total_amount"

C8_Witness ==
    /\ pc = "resolved" /\ resolved.domain = "sales"
    /\ column_names = <<"unit_price", "total_amount">>
    /\ resolved.roles["revenue"] = "total_amount"

\* C9: inserting, removing or moving a name that matches no rule of the
\* analyzer leaves the column resolved for every role unchanged.
C9_UnmatchedNamesDoNotMatter ==
    [][(pc = "resolved" /\ pc' = "resolved") => resolved'.roles = resolved.roles]_vars

C9_Witness ==
    /\ pc = "resolved" /\ resolved.edits = MaxEdits
    /\ Len(column_names) > 1
    /\ MatchesNoRule(resolved.domain, column_names[1])
    /\ \E role \in RolesOf(resolved.domain) : resolved.roles[role] # None

\* C10: standardising a standardised name returns it unchanged.
C10_StandardizeIdempotent == pc = "twice" => name.twice = name.once

C10_Witness ==
    /\ pc = "twice" /\ name.raw = "B -" /\ name.once = "b_" /\ name.twice = "b_"

----------------------------------------------------------------------------
(* Properties of the analyzer.                                             *)

\* The alerts the latest analyze_all invocation appended.
LastAppended == SubSeq(alerts, calls.base + 1, Len(alerts))

\* C4: the alerts one analyze_all invocation appends are ordered by domain
\* in the invocation order sales, inventory, advertising, reviews, and
\* within inventory Critical Stock Shortage comes before Low Stock Alert,
\* which comes before Overstock Detected.
C4_AlertsInDomainOrder ==
    LET domain_rank == [sales |-> 1, inventory |-> 2, advertising |-> 3, reviews |-> 4]
        title_rank(title) ==
            CASE title = "Critical Stock Shortage" -> 1
              [] title = "Low Stock Alert" -> 2
              [] title = "Overstock Detected" -> 3
              [] OTHER -> 0
    IN \A i \in Indices(LastAppended), j \in Indices(LastAppended) :
          i < j =>
            /\ domain_rank[LastAppended[i].type] <= domain_rank[LastAppended[j].type]
            /\ (LastAppended[i].type = "inventory" /\ LastAppended[j].type = "inventory")
                  => title_rank(LastAppended[i].title) < title_rank(LastAppended[j].title)

C4_Witness ==
    /\ calls.n = 1 /\ pc = "analyzed"
    /\ [k \in Indices(alerts) |-> alerts[k].title]
         = <<"Sales Decline", "Critical Stock Shortage", "Low Stock Alert",
             "Overstock Detected", "High ACOS Campaigns", "Low Ratings Alert">>

\* C5: a further analyze_all on the same analyzer with the same tables
\* keeps the alerts it found as a prefix and appends a fresh copy of every
\* alert the first invocation produced, while results holds the same one
\* record per domain as before.
C5_AlertsDuplicatedResultsReplaced ==
    calls.n >= 2 =>
        LET first == SubSeq(calls.before.alerts, 1,
                            Len(calls.before.alerts) \div (calls.n - 1))
        IN /\ alerts = calls.before.alerts \o first
           /\ results = calls.before.results

C5_Witness ==
    /\ calls.n = 2
    /\ Len(calls.before.alerts) = 6 /\ Len(alerts) = 12
    /\ alerts[7] = alerts[1] /\ alerts[7].title = "Sales Decline"
    /\ DOMAIN results = DomainSet

\* The KPI keys with the domain and the metrics field each is copied from.
KpiFields ==
    {<<"total_revenue", "sales", "total_revenue">>,
     <<"total_transactions", "sales", "total_transactions">>,
     <<"avg_order_value", "sales", "avg_order_value">>,
     <<"monthly_growth", "sales", "monthly_growth">>,
     <<"total_products", "inventory", "total_products">>,
     <<"low_stock_products", "inventory", "low_stock_count">>,
     <<"overstock_products", "inventory", "overstock_count">>,
     <<"total_ad_spend", "advertising", "total_spend">>,
     <<"avg_cpc", "advertising", "avg_cpc">>,
     <<"avg_rating", "reviews", "avg_rating">>,
     <<"total_reviews", "reviews", "total_reviews">>}

\* C6 as claimed: every KPI key is in the mapping get_kpi_summary returns,
\* with the field's value when the domain's record and the field exist and
\* 0 otherwise, also when the whole domain record is absent.
C6_EveryKpiKeyPresent ==
    pc = "kpi" =>
        \A f \in KpiFields :
            /\ f[1] \in DOMAIN kpis
            /\ kpis[f[1]] = IF f[2] \in DOMAIN results /\ f[3] \in DOMAIN results[f[2]]
                            THEN results[f[2]][f[3]] ELSE Num(0)

\* C6, amended: the mapping holds the KPI keys of exactly the domains that
\* have a record in results; each such key has the field's value, or 0
\* when the record lacks the field; the keys of a domain without a record
\* are not in the mapping.  Building the mapping changes neither results
\* nor alerts.
C6_KpiOfPresentDomains ==
    /\ [](pc = "kpi" =>
            /\ DOMAIN kpis \subseteq {f[1] : f \in KpiFields}
            /\ \A f \in KpiFields :
                  IF f[2] \in DOMAIN results
                  THEN /\ f[1] \in DOMAIN kpis
                       /\ kpis[f[1]] = IF f[3] \in DOMAIN results[f[2]]
                                       THEN results[f[2]][f[3]] ELSE Num(0)
                  ELSE f[1] \notin DOMAIN kpis)
    /\ [][pc' = "kpi" => (results' = results /\ alerts' = alerts)]_vars

C6_Witness ==
    /\ pc = "kpi" /\ calls.n = 1
    /\ DOMAIN results = {"sales"}
    /\ "monthly_growth" \notin DOMAIN results["sales"]
    /\ kpis["monthly_growth"] = Num(0)
    /\ kpis["total_revenue"] = Num(100)
    /\ "total_products" \notin DOMAIN kpis

----------------------------------------------------------------------------
(* Properties of one run.                                                  *)

\* The bucket the classification rule names for a file: the first domain,
\* in the order sales, inventory, advertising, reviews, one of whose
\* patterns occurs in the lowercased filename, else 'other'.
PriorityBucket(path) ==
    LET filename == Lower(path) IN
    IF \E p \in {"sales", "transaction", "order"} : Contains(filename, p) THEN "sales"
    ELSE IF \E p \in {"inventory", "stock"} : Contains(filename, p) THEN "inventory"
    ELSE IF \E p \in {"ad", "spend", "campaign"} : Contains(filename, p) THEN "advertising"
    ELSE IF \E p \in {"review", "rating"} : Contains(filename, p) THEN "reviews"
    ELSE "other"

\* C1: after discovery every CSV file of the directory is in exactly one
\* of the five buckets, once: the bucket of the first domain in priority
\* order with a pattern in the lowercased filename, 'other' when none
\* matches; the buckets hold nothing but the directory's files.
C1_EveryFileInItsPriorityBucket ==
    pc # "start" =>
        /\ \A k \in Indices(csv_files), b \in Buckets :
              Cardinality({i \in Indices(categorized[b]) :
                              categorized[b][i] = csv_files[k]})
                 = IF b = PriorityBucket(csv_files[k]) THEN 1 ELSE 0
        /\ \A b \in Buckets : \A i \in Indices(categorized[b]) :
              \E k \in Indices(csv_files) : csv_files[k] = categorized[b][i]

C1_Witness ==
    /\ pc # "start"
    /\ csv_files = <<"stock_ad.csv", "notes.csv">>
    /\ categorized["inventory"] = <<"stock_ad.csv">>
    /\ categorized["advertising"] = <<>>
    /\ categorized["other"] = <<"notes.csv">>

\* C2 as claimed: when the run has ended, every domain whose own file
\* loads and whose own analysis completes has its metrics in results and
\* its alerts in alerts, whatever happened to the other domains.
C2_FailureIsOneDomainOnly ==
    pc \in {"done", "error"} =>
        \A d \in DomainSet :
            LET df == load_data(d, categorized[d]).df IN
            (~IsNone(df) /\ ~HasRaised(df) /\ ~HasRaised(AnalyzeDomain(d, df, today)))
                => /\ d \in DOMAIN results
                   /\ results[d] = AnalyzeDomain(d, df, today).metrics
                   /\ \A a \in Indices(AnalyzeDomain(d, df, today).alerts) :
                         \E k \in Indices(alerts) :
                             alerts[k] = AnalyzeDomain(d, df, today).alerts[a]

\* The run the claim fails on: the sales file cannot be read, and the
\* readable inventory file is never opened.
C2_Witness ==
    /\ pc = "error"
    /\ categorized["sales"] = <<"transactions.csv">>
    /\ categorized["inventory"] = <<"inventory.csv">>
    /\ opened = <<"transactions.csv">>
    /\ results = <<>> /\ alerts = <<>> /\ report = NoReport

\* C3 as claimed: a run that ends without an exception has stopped at the
\* no-files check exactly when no file was classified as sales,
\* inventory, advertising or reviews.
C3_StopsIffNoDomainFile ==
    pc \in {"no_files", "done"} =>
        (pc = "no_files" <=> \A d \in DomainSet : categorized[d] = <<>>)

\* C3, amended: the run stops at the no-files check exactly when the
\* directory holds no CSV file at all, the 'other' bucket counted; a
\* directory whose CSV files are all in 'other' is not stopped and does
\* not fail: it is analysed with every table absent, and the report it
\* ends with has the dashboard sheet alone.
C3_StopsIffNoCsvFile ==
    /\ pc = "no_files" => (csv_files = <<>> /\ opened = <<>> /\ report = NoReport)
    /\ (pc # "start" /\ csv_files = <<>>) => pc = "no_files"
    /\ (csv_files # <<>> /\ \A d \in DomainSet : categorized[d] = <<>>) =>
          /\ pc \notin {"no_files", "error"}
          /\ pc = "done" => /\ report = [sheets |-> <<"Executive Dashboard">>]
                            /\ results = <<>> /\ alerts = <<>> /\ kpis = <<>>
                            /\ calls.n = 1

C3_Witness ==
    /\ pc = "done"
    /\ csv_files = <<"notes.csv">>
    /\ categorized["other"] = <<"notes.csv">>
    /\ calls.n = 1
    /\ report = [sheets |-> <<"Executive Dashboard">>]

\* The tables of the directory that keeps the first path of each bucket.
FirstPathTables ==
    [d \in DomainSet |->
        IF categorized[d] = <<>> THEN NoTable
        ELSE LoadContent(d, ContentOf(categorized[d][1]))]

\* C7: every path read is the first path of a domain's bucket, and the
\* tables, the metrics and the alerts of the run are those of the first
\* paths alone.
C7_OnlyFirstPathLoaded ==
    /\ \A k \in Indices(opened) :
          \E d \in DomainSet : categorized[d] # <<>> /\ opened[k] = categorized[d][1]
    /\ pc = "analyze" => data_dict = FirstPathTables
    /\ pc \in {"report", "done"} =>
          LET st == analyze_all(AnalyzerState(<<>>, <<>>, FirstPathTables), today)
          IN data_dict = st.data_dict /\ results = st.results /\ alerts = st.alerts

C7_Witness ==
    /\ pc = "done"
    /\ categorized["sales"] = <<"sales_2023.csv", "Orders_Stock.csv">>
    /\ opened = <<"sales_2023.csv">>
    /\ results["sales"]["total_revenue"] = Num(180)
    /\ Len(alerts) = 1 /\ alerts[1].title = "Sales Decline"

----------------------------------------------------------------------------
(* Properties of loading and cleaning.                                     *)

\* A cell of the raw table that is not a number: text that does not parse,
\* or an empty cell.
Unparseable(cell) == IsNaN(cell) \/ (IsStr(cell) /\ ~IsNumeric(cell.v))

\* C11 as claimed: the cleaning raises on no cell, and in the cleaned
\* table every unparseable cell of a column whose name matches the
\* domain's numeric patterns is 0 in an inventory table and null in a
\* sales table.
C11_UnparseableCellsGetTheSentinel ==
    /\ (pc = "load_error" /\ loader.domain \in {"sales", "inventory"})
          => IsUnreadable(loader.content)
    /\ (pc = "loaded" /\ loader.domain \in {"sales", "inventory"}) =>
          \A i \in Indices(loader.df.columns), r \in Indices(loader.df.rows) :
              (/\ \E p \in (IF loader.domain = "sales"
                            THEN {"quantity", "price", "total", "amount", "qty",
                                  "cost", "revenue"}
                            ELSE {"stock", "quantity", "qty", "days", "supply",
                                  "inbound"}) :
                        Contains(Lower(loader.df.columns[i]), p)
               /\ Unparseable(loader.raw.rows[r][i]))
              => loader.df.rows[r][i]
                    = IF loader.domain = "inventory" THEN Num(0) ELSE NaN

\* The load the claim fails on: two inventory columns standardise to
\* current_stock, and their unparseable cells are left as they were read.
C11_Witness ==
    /\ pc = "loaded" /\ loader.domain = "inventory"
    /\ loader.content = Csv(<<"Current Stock", "current-stock", "Inbound">>,
                            <<<<"n/a", "x", "7">>, <<"", "", "">>>>)
    /\ loader.df.columns = <<"current_stock", "current_stock", "inbound">>
    /\ loader.df.rows = <<<<Str("n/a"), Str("x"), Num(7)>>, <<NaN, NaN, Num(0)>>>>

\* C12: the table a load returns has as many columns and as many rows as
\* the table read from the file, the columns in the same order under
\* their standardised names, and each cell is the cell read at the same
\* row and column or a conversion of that same cell.
C12_ShapeAndRowOrderPreserved ==
    pc = "loaded" =>
        /\ Len(loader.df.columns) = Len(loader.raw.columns)
        /\ Len(loader.raw.columns) = Len(loader.content.columns)
        /\ Len(loader.df.rows) = Len(loader.raw.rows)
        /\ Len(loader.raw.rows) = Len(loader.content.rows)
        /\ \A i \in Indices(loader.df.columns) :
              loader.df.columns[i] = standardize_column_name(loader.raw.columns[i])
        /\ \A r \in Indices(loader.df.rows) :
              /\ Len(loader.df.rows[r]) = Len(loader.raw.columns)
              /\ \A i \in Indices(loader.raw.columns) :
                    loader.df.rows[r][i] \in
                        {loader.raw.rows[r][i], to_numeric(loader.raw.rows[r][i]),
                         fillna0(to_numeric(loader.raw.rows[r][i])),
                         to_datetime(loader.raw.rows[r][i])}

C12_Witness ==
    /\ pc = "loaded" /\ loader.domain = "sales"
    /\ loader.raw.columns = <<"Qty", "QTY", "Total">>
    /\ loader.df.columns = <<"qty", "qty", "total">>
    /\ loader.raw.rows = <<<<Str("n/a"), Str("x"), Str("7")>>,
                           <<Str("7"), Str("-2"), Str("2023-02-01")>>>>
    /\ loader.df.rows = <<<<Str("n/a"), Str("x"), Num(7)>>,
                          <<Str("7"), Str("-2"), NaN>>>>

----------------------------------------------------------------------------
(* Properties of the sales analysis.                                       *)

\* The calendar months of the rows of a sales table, as year * 12 + month:
\* none unless a date column and a revenue column resolve.
MonthsOf(t) ==
    IF FirstColumn("date", t.columns) = None \/ FirstColumn("revenue", t.columns) = None
    THEN {}
    ELSE {to_datetime(c).y * 12 + to_datetime(c).m :
            c \in {Column(t, FirstColumn("date", t.columns))[r] :
                      r \in {q \in Indices(t.rows) :
                                IsDate(to_datetime(Column(t, FirstColumn("date", t.columns))[q]))}}}

\* The revenue total of month k: the sum of the numbers in the revenue
\* column over the rows dated in k.
MonthTotal(t, k) ==
    SumCells(SelectRows(Column(t, FirstColumn("revenue", t.columns)),
        {r \in Indices(t.rows) :
            LET d == to_datetime(Column(t, FirstColumn("date", t.columns))[r])
            IN IsDate(d) /\ d.y * 12 + d.m = k}, 1))

LatestMonth(t) == CHOOSE k \in MonthsOf(t) : \A j \in MonthsOf(t) : j <= k
PreviousMonth(t) ==
    CHOOSE k \in MonthsOf(t) \ {LatestMonth(t)} :
        \A j \in MonthsOf(t) \ {LatestMonth(t)} : j <= k

SalesAnalysed == pc \in {"analyzed", "kpi"} /\ "sales" \in DOMAIN results

\* C13 as claimed: monthly_growth is in the sales metrics exactly when
\* there are at least two months and the previous month's total is not 0,
\* be it positive or negative.
C13_GrowthWhenPreviousNonzero ==
    SalesAnalysed =>
        ("monthly_growth" \in DOMAIN results["sales"]
            <=> /\ Cardinality(MonthsOf(data_dict["sales"])) >= 2
                /\ MonthTotal(data_dict["sales"], PreviousMonth(data_dict["sales"])) # 0)

\* C13, amended: monthly_growth is in the sales metrics exactly when
\* there are at least two months and the previous month's total is
\* strictly positive, and then it is (last - previous) / previous * 100
\* for the totals of the two latest months; with a previous total that is
\* 0 or negative the key is absent.
C13_GrowthWhenPreviousPositive ==
    SalesAnalysed =>
        /\ "monthly_growth" \in DOMAIN results["sales"]
              <=> /\ Cardinality(MonthsOf(data_dict["sales"])) >= 2
                  /\ MonthTotal(data_dict["sales"], PreviousMonth(data_dict["sales"])) > 0
        /\ "monthly_growth" \in DOMAIN results["sales"] =>
              LET last == MonthTotal(data_dict["sales"], LatestMonth(data_dict["sales"]))
                  previous == MonthTotal(data_dict["sales"], PreviousMonth(data_dict["sales"]))
                  growth == results["sales"]["monthly_growth"]
              IN /\ IsNumber(growth)
                 /\ Numer(growth) * previous = (last - previous) * 100 * Denom(growth)

\* Monthly totals 150 then 260: the growth is 220/3, which prints as
\* +73.3, and no alert is raised.
C13_Witness ==
    /\ SalesAnalysed /\ calls.n = 1
    /\ Cardinality(MonthsOf(data_dict["sales"])) = 2
    /\ MonthTotal(data_dict["sales"], PreviousMonth(data_dict["sales"])) = 150
    /\ MonthTotal(data_dict["sales"], LatestMonth(data_dict["sales"])) = 260
    /\ results["sales"]["monthly_growth"] = Rat(220, 3)
    /\ Less(Rat(733, 10), results["sales"]["monthly_growth"])
    /\ Less(results["sales"]["monthly_growth"], Rat(734, 10))
    /\ alerts = <<>>

\* C14: the sales analysis appends one alert, the warning 'Sales Decline',
\* when monthly_growth is in the metrics and is below -10, and appends
\* nothing otherwise: not when the key is absent, not at exactly -10.
C14_DeclineAlertBelowMinusTen ==
    SalesAnalysed =>
        IF /\ "monthly_growth" \in DOMAIN results["sales"]
           /\ Numer(results["sales"]["monthly_growth"])
                 < (0 - 10) * Denom(results["sales"]["monthly_growth"])
        THEN /\ Len(LastAppended) = 1
             /\ LastAppended[1].type = "sales"
             /\ LastAppended[1].level = "warning"
             /\ LastAppended[1].title = "Sales Decline"
        ELSE LastAppended = <<>>

\* Monthly totals 150 then 130: the growth is -40/3 and the alert is there.
C14_Witness ==
    /\ SalesAnalysed /\ calls.n = 1
    /\ "monthly_growth" \in DOMAIN results["sales"]
    /\ results["sales"]["monthly_growth"] = Rat(0 - 40, 3)
    /\ Len(alerts) = 1 /\ alerts[1].title = "Sales Decline"

----------------------------------------------------------------------------
(* Properties of the inventory analysis.                                   *)

\* The state after one analyze_all on an inventory table.
InventoryAnalysed ==
    pc = "analyzed" /\ calls.n = 1 /\ ~IsNone(data_dict["inventory"])

\* The days-of-supply column the scan resolves, None when there is none.
DaysColumn == FirstColumn("days", data_dict["inventory"].columns)

\* The stock-level column the scan resolves, None when there is none.
StockColumn == FirstColumn("stock", data_dict["inventory"].columns)

\* The rows of the table whose days-of-supply value is below bound.
RowsBelow(bound) ==
    {r \in Indices(data_dict["inventory"].rows) :
        LET cell == to_numeric(Column(data_dict["inventory"], DaysColumn)[r])
        IN IsNumber(cell) /\ Numer(cell) < bound * Denom(cell)}

\* The rows of the table whose days-of-supply value is above bound.
RowsAbove(bound) ==
    {r \in Indices(data_dict["inventory"].rows) :
        LET cell == to_numeric(Column(data_dict["inventory"], DaysColumn)[r])
        IN IsNumber(cell) /\ Numer(cell) > bound * Denom(cell)}

\* Whether a list of alerts holds one with the title.
HasAlert(list, title) == \E i \in Indices(list) : list[i].title = title

\* C15: whenever a days-of-supply column resolves, whether or not a
\* stock-level column resolves too, the analysis counts the rows below
\* low_stock_days and the rows above overstock_days and the alerts follow
\* the two groups: a row with 2 days gives the critical and the low-stock
\* alert, a row with 45 days gives the overstock alert and no low-stock one.
C15_DaysColumnAloneGivesAlerts ==
    (InventoryAnalysed /\ DaysColumn # None) =>
        /\ "low_stock_count" \in DOMAIN results["inventory"]
        /\ "overstock_count" \in DOMAIN results["inventory"]
        /\ results["inventory"]["low_stock_count"]
              = Num(Cardinality(RowsBelow(low_stock_days)))
        /\ results["inventory"]["overstock_count"]
              = Num(Cardinality(RowsAbove(overstock_days)))
        /\ HasAlert(alerts, "Low Stock Alert") <=> RowsBelow(low_stock_days) # {}
        /\ HasAlert(alerts, "Critical Stock Shortage")
              <=> RowsBelow(critical_stock_days) # {}
        /\ HasAlert(alerts, "Overstock Detected") <=> RowsAbove(overstock_days) # {}

\* A table with the columns sku, stock_status, days_of_supply and one row
\* with 2 days of supply: the analysis leaves no days metric and no alert.
C15_Witness ==
    /\ InventoryAnalysed
    /\ data_dict["inventory"].columns = <<"sku", "stock_status", "days_of_supply">>
    /\ data_dict["inventory"].rows = <<<<Str("a1"), Num(10), Num(2)>>>>
    /\ DOMAIN results["inventory"] = {"total_products"}
    /\ alerts = <<>>

\* C16: the inventory alerts are not exclusive: an analysis that appends
\* 'Critical Stock Shortage' appends 'Low Stock Alert' too; 'Low Stock
\* Alert' is appended exactly when some row has days below low_stock_days
\* and 'Overstock Detected' exactly when some row has days above
\* overstock_days.
C16_AlertsFollowTheRows ==
    InventoryAnalysed =>
        LET low == IF DaysColumn = None THEN {} ELSE RowsBelow(low_stock_days)
            over == IF DaysColumn = None THEN {} ELSE RowsAbove(overstock_days)
        IN /\ HasAlert(alerts, "Critical Stock Shortage")
                => HasAlert(alerts, "Low Stock Alert")
           /\ HasAlert(alerts, "Low Stock Alert") <=> low # {}
           /\ HasAlert(alerts, "Overstock Detected") <=> over # {}

\* A table with the columns sku, stock_status, days_of_supply whose rows
\* have 3 and 45 days of supply: one row is below low_stock_days and one
\* above overstock_days, and the analysis appends no alert.
C16_Witness ==
    /\ InventoryAnalysed
    /\ data_dict["inventory"].columns = <<"sku", "stock_status", "days_of_supply">>
    /\ data_dict["inventory"].rows
          = <<<<Str("b2"), Num(0), Num(3)>>, <<Str("e5"), Num(7), Num(45)>>>>
    /\ RowsBelow(low_stock_days) = {1}
    /\ RowsAbove(overstock_days) = {2}
    /\ ~HasAlert(alerts, "Low Stock Alert")
    /\ ~HasAlert(alerts, "Overstock Detected")

\* C17: 'Critical Stock Shortage' is monotonic in its trigger: when one
\* days-of-supply value of an analysed table is lowered to a value below
\* critical_stock_days and every other cell is kept, the analysis of the
\* new table has the alert if the analysis of the old one had it; the
\* change adds the alert or leaves the alerts as they were, never removes
\* it.
C17_LoweringKeepsCritical ==
    [][pc' = "lowered" =>
          (HasAlert(alerts, "Critical Stock Shortage")
              => HasAlert(alerts', "Critical Stock Shortage"))]_vars

\* The one row with 2 days of supply is lowered to 0 days: the alert was
\* there before and is there after.
C17_Witness ==
    /\ pc = "lowered"
    /\ calls.before.data_dict["inventory"].rows = <<<<Str("a1"), Num(10), Num(2)>>>>
    /\ data_dict["inventory"].rows = <<<<Str("a1"), Num(10), Num(0)>>>>
    /\ HasAlert(calls.before.alerts, "Critical Stock Shortage")
    /\ HasAlert(alerts, "Critical Stock Shortage")

\* The sum of the numbers of the resolved stock-level column.
StockSum ==
    LET cells == Column(data_dict["inventory"], StockColumn)
        amount(r) == IF IsNumber(to_numeric(cells[r]))
                     THEN Numer(to_numeric(cells[r])) ELSE 0
        sum[n \in 0 .. Len(cells)] == IF n = 0 THEN 0 ELSE sum[n - 1] + amount(n)
    IN sum[Len(cells)]

\* Whether the stock-level scan resolves to one column of the table.
StockResolved ==
    /\ StockColumn # None
    /\ Cardinality({i \in Indices(data_dict["inventory"].columns) :
                        data_dict["inventory"].columns[i] = StockColumn}) = 1

\* C18 as stated: the inventory metrics always hold total_products, the
\* row count, and total_stock, the sum of the resolved stock-level column,
\* which is 0 when no stock-level column resolves.
C18_TotalStockAlwaysPresent ==
    InventoryAnalysed =>
        /\ results["inventory"]["total_products"]
              = Num(Len(data_dict["inventory"].rows))
        /\ "total_stock" \in DOMAIN results["inventory"]
        /\ results["inventory"]["total_stock"]
              = IF StockResolved THEN Num(StockSum) ELSE Num(0)

\* C18: the inventory metrics always hold total_products, the row count;
\* they hold total_stock, the sum of the stock-level column, exactly when
\* the stock-level scan resolves to one column of the table, and have no
\* total_stock key otherwise.
C18_TotalStockWhenResolved ==
    InventoryAnalysed =>
        /\ results["inventory"]["total_products"]
              = Num(Len(data_dict["inventory"].rows))
        /\ "total_stock" \in DOMAIN results["inventory"] <=> StockResolved
        /\ StockResolved => results["inventory"]["total_stock"] = Num(StockSum)

\* The rows (a1, 10, 2) and (e5, 7, 45) under the columns sku,
\* stock_status, days_of_supply: two products, and no total_stock key.
C18_Witness ==
    /\ InventoryAnalysed
    /\ data_dict["inventory"].columns = <<"sku", "stock_status", "days_of_supply">>
    /\ data_dict["inventory"].rows
          = <<<<Str("a1"), Num(10), Num(2)>>, <<Str("e5"), Num(7), Num(45)>>>>
    /\ ~StockResolved
    /\ results["inventory"]["total_products"] = Num(2)
    /\ "total_stock" \notin DOMAIN results["inventory"]

----------------------------------------------------------------------------
(* Properties of the advertising analysis.                                 *)

\* The state after one analyze_all that recorded advertising metrics.
AdvertisingAnalysed ==
    pc = "analyzed" /\ calls.n = 1 /\ "advertising" \in DOMAIN results

\* The sum of the numbers of the column the role resolves to, 0 when the
\* role resolves to no column.
AdvertisingTotal(role) ==
    LET col == FirstColumn(role, data_dict["advertising"].columns)
        cells == Column(data_dict["advertising"], col)
        amount(r) == IF IsNumber(to_numeric(cells[r]))
                     THEN Numer(to_numeric(cells[r])) ELSE 0
        sum[n \in 0 .. Len(data_dict["advertising"].rows)] ==
            IF n = 0 THEN 0 ELSE sum[n - 1] + amount(n)
    IN IF col = None THEN 0 ELSE sum[Len(data_dict["advertising"].rows)]

\* C19: avg_cpc is in the advertising metrics exactly when total spend and
\* total clicks are both positive, and is their quotient; ctr is there
\* exactly when total impressions are positive as well; when spend and
\* clicks are 0 in every row neither key is in the record.
C19_RatiosWhenTotalsPositive ==
    AdvertisingAnalysed =>
        LET spend == AdvertisingTotal("spend")
            clicks == AdvertisingTotal("clicks")
            impressions == AdvertisingTotal("impressions")
            metrics == results["advertising"]
        IN /\ "avg_cpc" \in DOMAIN metrics <=> (spend > 0 /\ clicks > 0)
           /\ "ctr" \in DOMAIN metrics
                 <=> (spend > 0 /\ clicks > 0 /\ impressions > 0)
           /\ "avg_cpc" \in DOMAIN metrics
                 => Numer(metrics["avg_cpc"]) * clicks = spend * Denom(metrics["avg_cpc"])
           /\ "ctr" \in DOMAIN metrics
                 => Numer(metrics["ctr"]) * impressions
                       = clicks * 100 * Denom(metrics["ctr"])

\* Zero spend with 4 clicks and 200 impressions, then spend and clicks of 0
\* in every row: neither avg_cpc nor ctr is in the record, and nothing was
\* raised.
C19_Witness ==
    /\ AdvertisingAnalysed
    /\ data_dict["advertising"].columns
          = <<"campaign_name", "spend", "clicks", "impressions", "sales">>
    /\ data_dict["advertising"].rows
          = <<<<Str("Free"), Num(0), Num(4), Num(200), Num(50)>>,
              <<Str("Brand"), Num(0), Num(0), Num(0), Num(0)>>>>
    /\ results["advertising"]["total_spend"] = Num(0)
    /\ results["advertising"]["total_clicks"] = Num(4)
    /\ "avg_cpc" \notin DOMAIN results["advertising"]
    /\ "ctr" \notin DOMAIN results["advertising"]

\* The rows of the two campaign tables of the advertising metrics that
\* carry a return-on-spend value.
RoasRows ==
    LET metrics == results["advertising"]
        rowsOf(key) == IF key \in DOMAIN metrics
                       THEN {metrics[key].rows[i] : i \in Indices(metrics[key].rows)}
                       ELSE {}
    IN {row \in rowsOf("campaign_performance") \cup rowsOf("high_acos_campaigns") :
           "roas" \in DOMAIN row}

\* C20: every return-on-spend value in campaign_performance and in
\* high_acos_campaigns is a finite number, never an infinity or NaN, and is
\* 0 for a campaign whose summed spend is 0.
C20_RoasIsFinite ==
    AdvertisingAnalysed =>
        \A row \in RoasRows :
            /\ IsNumber(row.roas)
            /\ row.spend = 0 => row.roas = Num(0)

\* The campaign Free has sales of 50 on a spend of 0 and Brand 0 on 0: the
\* quotients are an infinity and NaN, and both campaigns show a roas of 0.
C20_Witness ==
    /\ AdvertisingAnalysed
    /\ data_dict["advertising"].rows
          = <<<<Str("Free"), Num(0), Num(4), Num(200), Num(50)>>,
              <<Str("Brand"), Num(0), Num(0), Num(0), Num(0)>>>>
    /\ "campaign_performance" \in DOMAIN results["advertising"]
    /\ \E row \in RoasRows :
          row.campaign_name = "Free" /\ row.sales = 50 /\ row.spend = 0
          /\ row.roas = Num(0)
    /\ \E row \in RoasRows :
          row.campaign_name = "Brand" /\ row.sales = 0 /\ row.spend = 0
          /\ row.roas = Num(0)

----------------------------------------------------------------------------
(* Properties of the campaign analysis.                                    *)

\* The campaign names of the advertising table.
CampaignNames ==
    LET names == Column(data_dict["advertising"], "campaign_name")
    IN {names[r].v : r \in {q \in Indices(names) : IsStr(names[q])}}

\* The sum of the numbers a campaign has in a column.
CampaignSum(col, campaign) ==
    LET names == Column(data_dict["advertising"], "campaign_name")
        cells == Column(data_dict["advertising"], col)
        amount(r) == IF names[r] = Str(campaign) /\ IsNumber(to_numeric(cells[r]))
                     THEN Numer(to_numeric(cells[r])) ELSE 0
        sum[n \in 0 .. Len(cells)] == IF n = 0 THEN 0 ELSE sum[n - 1] + amount(n)
    IN sum[Len(cells)]

\* The campaigns whose return on spend, sales over spend in hundredths and
\* 0 on a spend of 0, is below 100 / high_acos.
LowReturnCampaigns ==
    LET spend_col == FirstColumn("spend", data_dict["advertising"].columns) IN
    IF \/ ~HasColumn(data_dict["advertising"], "campaign_name")
       \/ ~HasColumn(data_dict["advertising"], "sales")
       \/ spend_col = None
    THEN {}
    ELSE {c \in CampaignNames :
            LET spend == CampaignSum(spend_col, c)
                sales == CampaignSum("sales", c)
                return == IF spend = 0 THEN Num(0) ELSE Round2(sales, spend)
            IN Numer(return) * high_acos < 100 * Denom(return)}

\* The positions in alerts of the 'High ACOS Campaigns' alerts.
HighAcosAlerts == {i \in Indices(alerts) : alerts[i].title = "High ACOS Campaigns"}

\* C21: the advertising analysis appends one warning 'High ACOS Campaigns'
\* exactly when some campaign has a return on spend below 100 / high_acos;
\* high_acos_campaigns then lists at most HighAcosShown campaigns and the
\* alert reports the number of all campaigns below the threshold.
C21_HighAcosAlertIffLowReturn ==
    AdvertisingAnalysed =>
        /\ Cardinality(HighAcosAlerts) = IF LowReturnCampaigns # {} THEN 1 ELSE 0
        /\ \A i \in HighAcosAlerts :
              /\ alerts[i].level = "warning"
              /\ alerts[i].n = Num(Cardinality(LowReturnCampaigns))
        /\ LowReturnCampaigns # {} =>
              /\ "high_acos_campaigns" \in DOMAIN results["advertising"]
              /\ Len(results["advertising"]["high_acos_campaigns"].rows)
                    = IF Cardinality(LowReturnCampaigns) < HighAcosShown
                      THEN Cardinality(LowReturnCampaigns) ELSE HighAcosShown

\* The campaign Alpha with a spend of 100 and sales of 100 in a table with
\* the columns campaign_name, spend, taps, impressions, sales: the return
\* is 1, and the analysis leaves no campaign table and no alert.
C21_Witness ==
    /\ AdvertisingAnalysed
    /\ data_dict["advertising"].columns
          = <<"campaign_name", "spend", "taps", "impressions", "sales">>
    /\ data_dict["advertising"].rows
          = <<<<Str("Alpha"), Num(100), Num(10), Num(1000), Num(100)>>>>
    /\ LowReturnCampaigns = {"Alpha"}
    /\ "campaign_performance" \notin DOMAIN results["advertising"]
    /\ alerts = <<>>

\* The campaigns whose spend sums to 0.
ZeroSpendCampaigns ==
    {c \in CampaignNames :
        CampaignSum(FirstColumn("spend", data_dict["advertising"].columns), c) = 0}

\* An advertising table with the columns the campaign analysis works on.
HasCampaignColumns ==
    /\ HasColumn(data_dict["advertising"], "campaign_name")
    /\ HasColumn(data_dict["advertising"], "sales")
    /\ FirstColumn("spend", data_dict["advertising"].columns) # None
    /\ FirstColumn("clicks", data_dict["advertising"].columns) # None

----------------------------------------------------------------------------
(* Properties of the reviews analysis.                                     *)

\* The state after one analyze_all on a reviews table.
ReviewsAnalysed ==
    pc = "analyzed" /\ calls.n = 1 /\ "reviews" \in DOMAIN results

\* The rows of the reviews table whose rating parses as a number.
RatedRows ==
    IF ~HasColumn(data_dict["reviews"], "rating") THEN {}
    ELSE {r \in Indices(data_dict["reviews"].rows) :
            IsNumber(to_numeric(Column(data_dict["reviews"], "rating")[r]))}

\* The rating of a rated row.
RatingOf(r) == Numer(to_numeric(Column(data_dict["reviews"], "rating")[r]))

\* The sum of the parseable ratings.
RatingSum ==
    LET amount(r) == IF r \in RatedRows THEN RatingOf(r) ELSE 0
        sum[n \in 0 .. Len(data_dict["reviews"].rows)] ==
            IF n = 0 THEN 0 ELSE sum[n - 1] + amount(n)
    IN sum[Len(data_dict["reviews"].rows)]

\* The rows whose rating is below low_rating.
LowRatedRows == {r \in RatedRows : RatingOf(r) < low_rating}

\* C22: with a rating column, avg_rating is the mean of the parseable
\* ratings; the reviews analysis appends one warning 'Low Ratings Alert'
\* exactly when some rating is below low_rating, and low_rated_count is
\* then the number of such reviews; the ratings 1, 1, 5, 5 give an
\* avg_rating of 3, a low_rated_count of 2 and one warning.
C22_RatingMeanAndLowAlert ==
    ReviewsAnalysed =>
        LET metrics == results["reviews"] IN
        /\ (HasColumn(data_dict["reviews"], "rating") /\ RatedRows # {}) =>
              /\ "avg_rating" \in DOMAIN metrics
              /\ IsNumber(metrics["avg_rating"])
              /\ Numer(metrics["avg_rating"]) * Cardinality(RatedRows)
                    = RatingSum * Denom(metrics["avg_rating"])
        /\ Len(alerts) = IF LowRatedRows # {} THEN 1 ELSE 0
        /\ LowRatedRows # {} =>
              /\ alerts[1].type = "reviews"
              /\ alerts[1].level = "warning"
              /\ alerts[1].title = "Low Ratings Alert"
              /\ "low_rated_count" \in DOMAIN metrics
              /\ metrics["low_rated_count"] = Num(Cardinality(LowRatedRows))

\* The ratings 1, 1, 5, 5: avg_rating 3, low_rated_count 2, one warning.
C22_Witness ==
    /\ ReviewsAnalysed
    /\ HasColumn(data_dict["reviews"], "rating")
    /\ Column(data_dict["reviews"], "rating") = <<Num(1), Num(1), Num(5), Num(5)>>
    /\ results["reviews"]["avg_rating"] = Num(3)
    /\ results["reviews"]["low_rated_count"] = Num(2)
    /\ Len(alerts) = 1 /\ alerts[1].title = "Low Ratings Alert"

----------------------------------------------------------------------------
(* Properties of aggregates over columns without values.                   *)

\* The revenue column the sales scan resolves, None when there is none.
RevenueColumn == FirstColumn("revenue", data_dict["sales"].columns)

\* A sales table with rows whose revenue cells are all null.
RevenueAllNull ==
    /\ RevenueColumn # None
    /\ data_dict["sales"].rows # <<>>
    /\ \A r \in Indices(data_dict["sales"].rows) :
          IsNaN(Column(data_dict["sales"], RevenueColumn)[r])

\* C23: an aggregate over a column whose cells are all null is 0 and
\* nothing is raised: with an all-null revenue column total_revenue and
\* avg_order_value are 0, and with a rating column without a parseable
\* rating avg_rating is 0.
C23_AllNullGivesZero ==
    /\ (SalesAnalysed /\ calls.n = 1 /\ RevenueAllNull) =>
          /\ results["sales"]["total_revenue"] = Num(0)
          /\ results["sales"]["avg_order_value"] = Num(0)
    /\ (ReviewsAnalysed /\ HasColumn(data_dict["reviews"], "rating")
        /\ data_dict["reviews"].rows # <<>> /\ RatedRows = {}) =>
          /\ "avg_rating" \in DOMAIN results["reviews"]
          /\ results["reviews"]["avg_rating"] = Num(0)

\* One sale whose revenue cell is empty: total_revenue is 0 and
\* avg_order_value is NaN.
C23_Witness ==
    /\ SalesAnalysed /\ calls.n = 1
    /\ RevenueAllNull
    /\ Len(data_dict["sales"].rows) = 1
    /\ results["sales"]["total_revenue"] = Num(0)
    /\ results["sales"]["avg_order_value"] = NaN

----------------------------------------------------------------------------
(* Properties of the product ranking.                                      *)

\* The product-name column the sales scan resolves, None when there is
\* none.
ProductColumn == FirstColumn("product", data_dict["sales"].columns)

\* The product names of the sales table.
ProductNames ==
    LET names == Column(data_dict["sales"], ProductColumn)
    IN {names[r].v : r \in {q \in Indices(names) : IsStr(names[q])}}

\* The sum of the numbers a product has in a column.
ProductSum(col, product) ==
    LET names == Column(data_dict["sales"], ProductColumn)
        cells == Column(data_dict["sales"], col)
        amount(r) == IF names[r] = Str(product) /\ IsNum(cells[r]) THEN cells[r].v ELSE 0
        sum[n \in 0 .. Len(cells)] == IF n = 0 THEN 0 ELSE sum[n - 1] + amount(n)
    IN sum[Len(cells)]

\* C24: when a product-name column and a revenue column resolve,
\* top_products has one row per distinct product, with the product's
\* summed revenue and, when a quantity column resolves, its summed
\* quantity; the rows are in descending order of revenue and at most
\* TopProducts of them are kept, so no product left out has a higher
\* revenue than one that is kept.
C24_TopProductsRanked ==
    (SalesAnalysed /\ calls.n = 1 /\ ProductColumn # None /\ RevenueColumn # None) =>
        /\ "top_products" \in DOMAIN results["sales"]
        /\ LET top == results["sales"]["top_products"].rows
               quantity_col == FirstColumn("quantity", data_dict["sales"].columns)
               kept == {top[i].product : i \in Indices(top)}
           IN /\ Len(top) = IF Cardinality(ProductNames) < TopProducts
                            THEN Cardinality(ProductNames) ELSE TopProducts
              /\ Cardinality(kept) = Len(top)
              /\ kept \subseteq ProductNames
              /\ \A i \in Indices(top) :
                    /\ top[i].total_revenue = ProductSum(RevenueColumn, top[i].product)
                    /\ IF quantity_col # None
                       THEN top[i].total_quantity = ProductSum(quantity_col, top[i].product)
                       ELSE "total_quantity" \notin DOMAIN top[i]
              /\ \A i \in Indices(top) :
                    \A j \in Indices(top) :
                       i < j => top[i].total_revenue >= top[j].total_revenue
              /\ \A p \in ProductNames \ kept :
                    \A i \in Indices(top) :
                       ProductSum(RevenueColumn, p) <= top[i].total_revenue

\* Eleven products: ten are kept, Sofa first with 900, Lamp with the 250 of
\* its two sales, and Rug, whose revenue is 0, is left out.
C24_Witness ==
    /\ SalesAnalysed /\ calls.n = 1
    /\ ProductColumn # None /\ RevenueColumn # None
    /\ Cardinality(ProductNames) = 11
    /\ "top_products" \in DOMAIN results["sales"]
    /\ Len(results["sales"]["top_products"].rows) = TopProducts
    /\ results["sales"]["top_products"].rows[1].product = "Sofa"
    /\ results["sales"]["top_products"].rows[1].total_revenue = 900
    /\ \E i \in 1 .. TopProducts :
          /\ results["sales"]["top_products"].rows[i].product = "Lamp"
          /\ results["sales"]["top_products"].rows[i].total_revenue = 250
    /\ \A i \in 1 .. TopProducts :
          results["sales"]["top_products"].rows[i].product # "Rug"

----------------------------------------------------------------------------
(* Properties of the date-derived sales metrics.                           *)

\* The date column as the loader resolves it, None when there is none.
LoaderDateColumn == find_date_column(data_dict["sales"].columns)

\* The month labels of the rows whose cell in the loader's date column is
\* a date.
LoaderMonthLabels ==
    LET cells == Column(data_dict["sales"], LoaderDateColumn)
    IN {strftime_month(to_datetime(cells[r])).v :
          r \in {q \in Indices(cells) : IsDate(to_datetime(cells[q]))}}

\* The revenue of the rows with a month label.
LabelRevenue(label) ==
    LET cells == Column(data_dict["sales"], LoaderDateColumn)
        revenue == Column(data_dict["sales"], RevenueColumn)
        amount(r) == IF strftime_month(to_datetime(cells[r])) = Str(label)
                        /\ IsNum(revenue[r])
                     THEN revenue[r].v ELSE 0
        sum[n \in 0 .. Len(cells)] == IF n = 0 THEN 0 ELSE sum[n - 1] + amount(n)
    IN sum[Len(cells)]

\* C25: whenever the loader's date column (the first column whose name
\* contains 'date' or 'time') and a revenue column resolve, the sales
\* metrics hold monthly_trends, recent_transactions and recent_revenue,
\* and monthly_trends has one row per calendar month, labelled YYYY-MM,
\* with the month's revenue.
C25_DateMetricsForLoaderDateColumn ==
    (SalesAnalysed /\ calls.n = 1 /\ LoaderDateColumn # None /\ RevenueColumn # None) =>
        /\ {"monthly_trends", "recent_transactions", "recent_revenue"}
              \subseteq DOMAIN results["sales"]
        /\ LET trends == results["sales"]["monthly_trends"].rows
           IN /\ Len(trends) = Cardinality(LoaderMonthLabels)
              /\ {<<trends[i].month, trends[i].revenue>> : i \in Indices(trends)}
                    = {<<label, LabelRevenue(label)>> : label \in LoaderMonthLabels}

\* Sales of 150 in January and 260 in February under the columns
\* order_time, ..., total_amount: the loader parsed order_time as dates,
\* and the metrics hold none of the date-derived keys.
C25_Witness ==
    /\ SalesAnalysed /\ calls.n = 1
    /\ data_dict["sales"].columns
          = <<"order_time", "product_name", "qty", "unit_price", "total_amount">>
    /\ LoaderDateColumn = "order_time"
    /\ RevenueColumn = "total_amount"
    /\ Column(data_dict["sales"], "order_time") = <<Date(2023, 1, 5), Date(2023, 2, 1)>>
    /\ Column(data_dict["sales"], "total_amount") = <<Num(150), Num(260)>>
    /\ DOMAIN results["sales"]
          \cap {"monthly_trends", "recent_transactions", "recent_revenue", "monthly_growth"}
          = {}

----------------------------------------------------------------------------
(* Properties of what analyze_all does to the tables it is handed.         *)

\* Whether table after has every column, cell and row of table before, in
\* place, and beyond them only columns named in added.
KeepsTable(before, after, added) ==
    /\ Len(after.rows) = Len(before.rows)
    /\ Len(after.columns) >= Len(before.columns)
    /\ SubSeq(after.columns, 1, Len(before.columns)) = before.columns
    /\ \A r \in Indices(before.rows) :
          SubSeq(after.rows[r], 1, Len(before.columns)) = before.rows[r]
    /\ \A i \in (Len(before.columns) + 1) .. Len(after.columns) :
          after.columns[i] \in added

\* C26: an analyze_all leaves the inventory, advertising and reviews
\* tables as they were, and changes the sales table only by adding the
\* columns _date and _month_str, when a column containing 'date' resolves;
\* no column, cell or row the tables had is altered or removed.
C26_TablesKeptButForHelperColumns ==
    (pc = "analyzed" /\ calls.n >= 1) =>
        /\ \A d \in DomainSet \ {"sales"} : data_dict[d] = calls.before.data_dict[d]
        /\ IsNone(calls.before.data_dict["sales"]) => IsNone(data_dict["sales"])
        /\ ~IsNone(calls.before.data_dict["sales"]) =>
              /\ ~IsNone(data_dict["sales"])
              /\ KeepsTable(calls.before.data_dict["sales"], data_dict["sales"],
                    IF FirstColumn("date", calls.before.data_dict["sales"].columns) # None
                    THEN {"_date", "_month_str"} ELSE {})

\* A sales table with the columns order_date and _date, whose _date cell
\* was the text Lamp: after the analysis the cell holds the order date.
C26_Witness ==
    /\ pc = "analyzed" /\ calls.n = 1
    /\ calls.before.data_dict["sales"].columns
          = <<"order_date", "_date", "qty", "unit_price", "total_amount">>
    /\ calls.before.data_dict["sales"].rows
          = <<<<Date(2023, 1, 5), Str("Lamp"), Num(1), Num(150), Num(150)>>>>
    /\ data_dict["sales"].columns
          = <<"order_date", "_date", "qty", "unit_price", "total_amount", "_month_str">>
    /\ data_dict["sales"].rows
          = <<<<Date(2023, 1, 5), Date(2023, 1, 5), Num(1), Num(150), Num(150),
                Str("2023-01")>>>>

----------------------------------------------------------------------------
(* Properties of loading and analysing an inventory file.                  *)

\* The days-of-supply value of row r of the loaded file as the claim has
\* it: the number in the file's cell, 0 for a cell that is empty or no
\* number.
FileDays(r) ==
    LET text == loader.content.rows[r][ColumnIndex(data_dict["inventory"], DaysColumn)]
    IN IF IsNumeric(text) THEN ParseInt(text) ELSE 0

\* The rows of the file whose days-of-supply cell is empty or no number.
RowsWithoutDays ==
    {r \in Indices(loader.content.rows) :
        ~IsNumeric(loader.content.rows[r][ColumnIndex(data_dict["inventory"], DaysColumn)])}

\* C27: for an inventory file loaded by load_inventory_data, every row
\* whose days-of-supply cell is empty or unparseable counts as a row with 0
\* days: it is in low_stock_count and in the number the 'Critical Stock
\* Shortage' alert reports.
C27_RowsWithoutDaysAreCritical ==
    (pc = "analyzed" /\ loader.domain = "inventory" /\ DaysColumn # None
     /\ RowsWithoutDays # {}) =>
        /\ "low_stock_count" \in DOMAIN results["inventory"]
        /\ results["inventory"]["low_stock_count"]
              = Num(Cardinality({r \in Indices(loader.content.rows) :
                                    FileDays(r) < low_stock_days}))
        /\ \E i \in Indices(alerts) :
              /\ alerts[i].title = "Critical Stock Shortage"
              /\ alerts[i].n
                    = Num(Cardinality({r \in Indices(loader.content.rows) :
                                          FileDays(r) < critical_stock_days}))

\* The file SKU,Stock Status,Days-of-Supply with the row f6,x, and an empty
\* days cell: the loader made the cell 0, and the analysis has no
\* low_stock_count and no alert.
C27_Witness ==
    /\ pc = "analyzed" /\ loader.domain = "inventory"
    /\ loader.content = Csv(InventoryHeaderNoStock, <<<<"f6", "x", "">>>>)
    /\ data_dict["inventory"].rows[1][3] = Num(0)
    /\ RowsWithoutDays = {1}
    /\ "low_stock_count" \notin DOMAIN results["inventory"]
    /\ alerts = <<>>

----------------------------------------------------------------------------
(* Properties of the monthly trends.                                       *)

\* The label strftime('%Y-%m') gives the calendar month k = year * 12 + month.
MonthLabel(k) == strftime_month(Date((k - 1) \div 12, ((k - 1) % 12) + 1, 1)).v

\* The sum of the revenue column over the rows whose date is null.
UndatedRevenue(t) ==
    SumCells(SelectRows(Column(t, FirstColumn("revenue", t.columns)),
        {r \in Indices(t.rows) :
            ~IsDate(to_datetime(Column(t, FirstColumn("date", t.columns))[r]))}, 1))

RECURSIVE TrendSum(_, _)
\* The sum of the revenue column of monthly_trends from row i on.
TrendSum(rows, i) ==
    IF i > Len(rows) THEN 0 ELSE rows[i].revenue + TrendSum(rows, i + 1)

\* C29: monthly_trends has one row for each calendar month in which some
\* row has a parseable date and no other row, in ascending chronological
\* order, each with the month's revenue total; the totals add up to
\* total_revenue less the revenue of the rows without a date; and
\* monthly_growth, when present, compares the totals of the two latest
\* months that have rows, adjacent or not.
C29_MonthlyTrendsChronological ==
    (SalesAnalysed /\ "monthly_trends" \in DOMAIN results["sales"]) =>
        LET t == data_dict["sales"]
            trends == results["sales"]["monthly_trends"].rows
        IN /\ Len(trends) = Cardinality(MonthsOf(t))
           /\ \A i \in Indices(trends) :
                 \E k \in MonthsOf(t) :
                    /\ Cardinality({j \in MonthsOf(t) : j < k}) = i - 1
                    /\ trends[i].month = MonthLabel(k)
                    /\ trends[i].revenue = MonthTotal(t, k)
           /\ Num(TrendSum(trends, 1))
                 = Num(results["sales"]["total_revenue"].v - UndatedRevenue(t))
           /\ "monthly_growth" \in DOMAIN results["sales"] =>
                 LET last == MonthTotal(t, LatestMonth(t))
                     previous == MonthTotal(t, PreviousMonth(t))
                     growth == results["sales"]["monthly_growth"]
                 IN /\ trends[Len(trends)].month = MonthLabel(LatestMonth(t))
                    /\ trends[Len(trends) - 1].month = MonthLabel(PreviousMonth(t))
                    /\ Numer(growth) * previous = (last - previous) * 100 * Denom(growth)

\* The file with sales of February 2023, December 2022, a row without a
\* date, and April 2023, in this order: the trends run 2022-12, 2023-02,
\* 2023-04, add up to 430 of the 450 in total, and the growth compares
\* April with February.
C29_Witness ==
    /\ SalesAnalysed /\ calls.n = 1
    /\ Len(data_dict["sales"].rows) = 4
    /\ "monthly_trends" \in DOMAIN results["sales"]
    /\ results["sales"]["monthly_trends"].rows
          = <<[month |-> "2022-12", revenue |-> 80],
              [month |-> "2023-02", revenue |-> 260],
              [month |-> "2023-04", revenue |-> 90]>>
    /\ results["sales"]["total_revenue"] = Num(450)
    /\ UndatedRevenue(data_dict["sales"]) = 20
    /\ LatestMonth(data_dict["sales"]) - PreviousMonth(data_dict["sales"]) = 2
    /\ "monthly_growth" \in DOMAIN results["sales"]
    /\ results["sales"]["monthly_growth"] = Rat(0 - 1700, 26)

----------------------------------------------------------------------------
(* Properties of the alerts of repeated analyses.                          *)

\* The (type, level, title) triples of the alerts the analyzer can append.
AlertKinds ==
    {<<"sales", "warning", "Sales Decline">>,
     <<"inventory", "critical", "Critical Stock Shortage">>,
     <<"inventory", "warning", "Low Stock Alert">>,
     <<"inventory", "info", "Overstock Detected">>,
     <<"advertising", "warning", "High ACOS Campaigns">>,
     <<"reviews", "warning", "Low Ratings Alert">>}

\* C30: after any number of analyze_all invocations every alert has the
\* type of a domain whose table was not None in some invocation and a
\* (type, level, title) triple of the six kinds; the alerts of the latest
\* invocation have pairwise different titles and so are at most 6; and
\* results has keys only for domains whose table was supplied in some
\* invocation.
C30_AlertsOfSuppliedDomains ==
    /\ \A i \in Indices(alerts) :
          /\ alerts[i].type \in DomainSet
          /\ alerts[i].type \in calls.supplied
          /\ <<alerts[i].type, alerts[i].level, alerts[i].title>> \in AlertKinds
    /\ \A i \in Indices(LastAppended), j \in Indices(LastAppended) :
          i # j => LastAppended[i].title # LastAppended[j].title
    /\ Len(LastAppended) <= 6
    /\ DOMAIN results \subseteq calls.supplied

\* All four tables in the first invocation, no inventory table in the
\* second: six alerts, then the three that are not of the inventory, and
\* results keeps the inventory metrics of the first invocation.
C30_Witness ==
    /\ calls.n = 2 /\ pc = "analyzed"
    /\ IsNone(data_dict["inventory"])
    /\ calls.supplied = DomainSet
    /\ Len(calls.before.alerts) = 6
    /\ [k \in Indices(LastAppended) |-> LastAppended[k].title]
          = <<"Sales Decline", "High ACOS Campaigns", "Low Ratings Alert">>
    /\ alerts[2].type = "inventory"
    /\ DOMAIN results = DomainSet

====
